---------------------------- MODULE Spec2Model ----------------------------
(***************************************************************************)
(* Verification model of the trading engine of punkrockartist/trading:    *)
(*   - RiskManager and QuantStrategy   (domestic_stock/quant_trading_safe) *)
(*   - the pending-signal table, the ingestion thread and the request      *)
(*     handlers            (domestic_stock/quant_dashboard_mobile_api)     *)
(*                                                                         *)
(* Threads.  The request handlers are coroutines of one asyncio event      *)
(* loop: a handler runs without interruption by another handler until its  *)
(* first await.  The ingestion callback on_result runs on its own OS       *)
(* thread and the liquidation sells of stop_system run on worker threads   *)
(* (asyncio.to_thread); those interleave with the handlers and with each   *)
(* other.  A thread is cut into steps where it waits: for the lock of the  *)
(* table, for order_cash (a network call), for the event loop.             *)
(*                                                                         *)
(* Numbers.  Prices and amounts are integers (won).  A ratio r of the      *)
(* source (0.02, 0.1, ...) is held as the integer r * RatioDen, and every  *)
(* comparison of a quotient is cross-multiplied, so that no rounding is    *)
(* introduced by the model.                                                *)
(***************************************************************************)
EXTENDS Integers, Sequences, FiniteSets, TLC

(***************************************************************************)
(* Bounds of the model                                                     *)
(***************************************************************************)
MaxSignals   == 2    \* pending signals built in a run
MaxClock     == 90   \* the wall clock stops advancing here (signal runs)
SignalTicks  == 2    \* rows the feed delivers in a signal run
SignalOrders == 1    \* manual orders requested in a signal run
LedgerTicks  == 1    \* rows the feed delivers in a ledger run
LedgerOrders == 2    \* manual orders requested in a ledger run
MaxReloads   == 1    \* configuration reloads requested in a ledger run
MaxStops     == 1    \* stop requests in a ledger run

ClockStep  == 30     \* seconds between two observations of the wall clock

Symbols    == {"005930", "000660"}
Prices     == {96, 106}
BadPrices  == {0}
OrderPrices == {100}
OrderQuantities == {1}
EngineIds  == {1}

(***************************************************************************)
(* Program constants                                                       *)
(***************************************************************************)
RatioDen        == 1000    \* denominator of the integer form of a ratio
SignalTTL       == 60      \* expires_at = now.timestamp() + 60
AccountBalance  == 100000  \* initialize_trading_system(account_balance=100000)
InitShortPeriod == 3       \* QuantStrategy.short_ma_period
InitLongPeriod  == 10      \* QuantStrategy.long_ma_period
HistoryFactor   == 3       \* max_history = long_ma_period * 3

\* RiskManager.__init__: the limits a fresh ledger starts with.
DefaultRisk ==
    [ max_position_size_ratio |-> 100,       \* 0.1
      max_single_trade_amount |-> 1000000,
      stop_loss_ratio         |-> 20,        \* 0.02
      take_profit_ratio       |-> 50,        \* 0.05
      daily_loss_limit        |-> 500000,
      max_trades_per_day      |-> 5 ]

\* RiskConfig bodies a client may post: one trade a day; a loss limit of 300.
OneTradeRisk == [DefaultRisk EXCEPT !.max_trades_per_day = 1]
LowLossRisk  == [DefaultRisk EXCEPT !.daily_loss_limit = 300]

RiskConfigs == {OneTradeRisk, LowLossRisk}

\* StrategyConfig bodies a client may post: <<short_ma_period, long_ma_period>>.
StrategyConfigs == {<<2, 3>>, <<3, 2>>}

MinPriceChangeRatio == 10    \* RiskManager.min_price_change_ratio = 0.01

Terminal == {"approved", "rejected", "failed", "expired"}

Max(a, b) == IF a >= b THEN a ELSE b
Min(a, b) == IF a <= b THEN a ELSE b
Abs(a)    == IF a >= 0 THEN a ELSE -a

\* Python's int(x / y) for y > 0: the quotient truncated towards zero.
TruncDiv(x, y) == IF x >= 0 THEN x \div y ELSE -((-x) \div y)

RECURSIVE SumSeq(_)
SumSeq(s) == IF s = <<>> THEN 0 ELSE Head(s) + SumSeq(Tail(s))

\* s[-n:] of a Python list, for 0 < n.
LastN(s, n) == IF Len(s) <= n THEN s ELSE SubSeq(s, Len(s) - n + 1, Len(s))

(***************************************************************************)
(* RiskManager: the pure part.  rm is the ledger record.                   *)
(***************************************************************************)

\* Rule 1 with a strict comparison (a variant, used to test C6).
TradeCountExceededStrict(rm) == rm.daily_trades > rm.cfg.max_trades_per_day

\* can_trade rule 1.
TradeCountExceeded(rm) == rm.daily_trades >= rm.cfg.max_trades_per_day

\* can_trade rule 2.
DailyLossExceeded(rm) == rm.daily_pnl <= -rm.cfg.daily_loss_limit

\* can_trade rule 3.
AmountExceeded(rm, price, quantity) ==
    price * quantity > rm.cfg.max_single_trade_amount

\* can_trade rule 4: trade_amount > account_balance * max_position_size_ratio.
PositionSizeExceeded(rm, price, quantity) ==
    price * quantity * RatioDen > rm.account_balance * rm.cfg.max_position_size_ratio

\* can_trade rule 5.
AlreadyHeld(rm, stock_code) == stock_code \in DOMAIN rm.positions

\* Rule 6 with the ratio taken as a percentage of a percentage, never
\* reached by a price equal to the last one (a variant, used to test C34).
PriceChangeTooSmallNever(rm, stock_code, price) ==
    /\ stock_code \in DOMAIN rm.last_prices
    /\ Abs(price - rm.last_prices[stock_code]) * RatioDen < 0

\* can_trade rule 6: abs(price - last) / last < min_price_change_ratio.
PriceChangeTooSmall(rm, stock_code, price) ==
    /\ stock_code \in DOMAIN rm.last_prices
    /\ Abs(price - rm.last_prices[stock_code]) * RatioDen
          < MinPriceChangeRatio * rm.last_prices[stock_code]

\* can_trade without rule 5 (a variant, used to test C5).
CanTradeNoHeldRule(rm, stock_code, price, quantity) ==
    IF TradeCountExceeded(rm) THEN "trade_count"
    ELSE IF DailyLossExceeded(rm) THEN "daily_loss"
    ELSE IF AmountExceeded(rm, price, quantity) THEN "amount"
    ELSE IF PositionSizeExceeded(rm, price, quantity) THEN "position_size"
    ELSE IF PriceChangeTooSmall(rm, stock_code, price) THEN "price_change"
    ELSE "OK"

\* can_trade with rule 5 taken first (a variant, used to test C29).
CanTradeHeldFirst(rm, stock_code, price, quantity) ==
    IF AlreadyHeld(rm, stock_code) THEN "already_held"
    ELSE IF TradeCountExceeded(rm) THEN "trade_count"
    ELSE IF DailyLossExceeded(rm) THEN "daily_loss"
    ELSE IF AmountExceeded(rm, price, quantity) THEN "amount"
    ELSE IF PositionSizeExceeded(rm, price, quantity) THEN "position_size"
    ELSE IF PriceChangeTooSmall(rm, stock_code, price) THEN "price_change"
    ELSE "OK"

\* can_trade: "OK", or the reason of the first rule that fails.
CanTrade(rm, stock_code, price, quantity) ==
    IF TradeCountExceeded(rm) THEN "trade_count"
    ELSE IF DailyLossExceeded(rm) THEN "daily_loss"
    ELSE IF AmountExceeded(rm, price, quantity) THEN "amount"
    ELSE IF PositionSizeExceeded(rm, price, quantity) THEN "position_size"
    ELSE IF AlreadyHeld(rm, stock_code) THEN "already_held"
    ELSE IF PriceChangeTooSmall(rm, stock_code, price) THEN "price_change"
    ELSE "OK"

\* min(max_single_trade_amount, account_balance * max_position_size_ratio),
\* times RatioDen.
MaxTradeAmountScaled(rm) ==
    Min(rm.cfg.max_single_trade_amount * RatioDen,
        rm.account_balance * rm.cfg.max_position_size_ratio)

\* calculate_quantity rounding up instead of down (a variant, used to test
\* C9).
CalculateQuantityRoundUp(rm, price) ==
    Max(1, (MaxTradeAmountScaled(rm) + price * RatioDen - 1)
              \div (price * RatioDen))

\* calculate_quantity without the clamp to one share (a variant, used to
\* test C35).
CalculateQuantityUnclamped(rm, price) ==
    TruncDiv(MaxTradeAmountScaled(rm), price * RatioDen)

\* calculate_quantity, for price > 0: max(1, int(max_trade_amount / price)).
CalculateQuantity(rm, price) ==
    Max(1, TruncDiv(MaxTradeAmountScaled(rm), price * RatioDen))

\* update_position returning the pnl of one share (a variant, used to test
\* C10).
UpdatePositionResultPerShare(rm, stock_code, price, quantity, action) ==
    IF action = "sell" /\ stock_code \in DOMAIN rm.positions
    THEN price - rm.positions[stock_code].buy_price
    ELSE 0

\* What update_position returns.
UpdatePositionResult(rm, stock_code, price, quantity, action) ==
    IF action = "sell" /\ stock_code \in DOMAIN rm.positions
    THEN (price - rm.positions[stock_code].buy_price) * quantity
    ELSE 0

\* update_position counting a sell as a trade too (a variant, used to test
\* C8).
UpdatePositionCountingSells(rm, stock_code, price, quantity, action, t) ==
    IF action = "buy" THEN
        [rm EXCEPT
           !.positions = [c \in DOMAIN rm.positions \cup {stock_code} |->
                            IF c = stock_code
                            THEN [buy_price |-> price, quantity |-> quantity,
                                  buy_time |-> t]
                            ELSE rm.positions[c]],
           !.daily_trades = @ + 1,
           !.last_prices = [c \in DOMAIN rm.last_prices \cup {stock_code} |->
                              IF c = stock_code THEN price ELSE rm.last_prices[c]]]
    ELSE IF action = "sell" /\ stock_code \in DOMAIN rm.positions THEN
        [rm EXCEPT
           !.daily_pnl = @ + (price - rm.positions[stock_code].buy_price) * quantity,
           !.daily_trades = @ + 1,
           !.positions = [c \in DOMAIN rm.positions \ {stock_code} |->
                            rm.positions[c]],
           !.last_prices = [c \in DOMAIN rm.last_prices \ {stock_code} |->
                              rm.last_prices[c]]]
    ELSE rm

\* update_position forgetting the last price at every sell, held or not (a
\* variant, used to test C30).
UpdatePositionForgetting(rm, stock_code, price, quantity, action, t) ==
    IF action = "buy" THEN
        [rm EXCEPT
           !.positions = [c \in DOMAIN rm.positions \cup {stock_code} |->
                            IF c = stock_code
                            THEN [buy_price |-> price, quantity |-> quantity,
                                  buy_time |-> t]
                            ELSE rm.positions[c]],
           !.daily_trades = @ + 1,
           !.last_prices = [c \in DOMAIN rm.last_prices \cup {stock_code} |->
                              IF c = stock_code THEN price ELSE rm.last_prices[c]]]
    ELSE IF action = "sell" /\ stock_code \in DOMAIN rm.positions THEN
        [rm EXCEPT
           !.daily_pnl = @ + (price - rm.positions[stock_code].buy_price) * quantity,
           !.positions = [c \in DOMAIN rm.positions \ {stock_code} |->
                            rm.positions[c]],
           !.last_prices = [c \in DOMAIN rm.last_prices \ {stock_code} |->
                              rm.last_prices[c]]]
    ELSE IF action = "sell" THEN
        [rm EXCEPT
           !.last_prices = [c \in DOMAIN rm.last_prices \ {stock_code} |->
                              rm.last_prices[c]]]
    ELSE rm

\* The ledger after update_position; t is datetime.now().
UpdatePosition(rm, stock_code, price, quantity, action, t) ==
    IF action = "buy" THEN
        [rm EXCEPT
           !.positions = [c \in DOMAIN rm.positions \cup {stock_code} |->
                            IF c = stock_code
                            THEN [buy_price |-> price, quantity |-> quantity,
                                  buy_time |-> t]
                            ELSE rm.positions[c]],
           !.daily_trades = @ + 1,
           !.last_prices = [c \in DOMAIN rm.last_prices \cup {stock_code} |->
                              IF c = stock_code THEN price ELSE rm.last_prices[c]]]
    ELSE IF action = "sell" /\ stock_code \in DOMAIN rm.positions THEN
        [rm EXCEPT
           !.daily_pnl = @ + (price - rm.positions[stock_code].buy_price) * quantity,
           !.positions = [c \in DOMAIN rm.positions \ {stock_code} |->
                            rm.positions[c]],
           !.last_prices = [c \in DOMAIN rm.last_prices \ {stock_code} |->
                              rm.last_prices[c]]]
    ELSE rm

\* An update_price that also marks a held position to the market in
\* daily_pnl (a variant, used to test C36).
RiskUpdatePriceMarking(rm, stock_code, price) ==
    [rm EXCEPT !.last_prices =
        [c \in DOMAIN rm.last_prices \cup {stock_code} |->
            IF c = stock_code THEN price ELSE rm.last_prices[c]],
               !.daily_pnl =
        IF stock_code \in DOMAIN rm.positions
        THEN @ + (price - rm.positions[stock_code].buy_price)
                    * rm.positions[stock_code].quantity
        ELSE @]

\* RiskManager.update_price.
RiskUpdatePrice(rm, stock_code, price) ==
    [rm EXCEPT !.last_prices =
        [c \in DOMAIN rm.last_prices \cup {stock_code} |->
            IF c = stock_code THEN price ELSE rm.last_prices[c]]]

\* The two thresholds with strict comparisons (a variant, used to test C11).
StopLossTakeProfitStrict(rm, buy_price, current_price) ==
    \/ (current_price - buy_price) * RatioDen < -rm.cfg.stop_loss_ratio * buy_price
    \/ (current_price - buy_price) * RatioDen > rm.cfg.take_profit_ratio * buy_price

\* check_stop_loss_take_profit on a held position bought at buy_price:
\* change_ratio = (current_price - buy_price) / buy_price.
StopLossTakeProfit(rm, buy_price, current_price) ==
    \/ (current_price - buy_price) * RatioDen <= -rm.cfg.stop_loss_ratio * buy_price
    \/ (current_price - buy_price) * RatioDen >= rm.cfg.take_profit_ratio * buy_price

(***************************************************************************)
(* QuantStrategy: the pure part.  st is the strategy record.               *)
(***************************************************************************)

\* QuantStrategy.update_price: append, keep the last long_ma_period * 3.
StrategyUpdatePrice(st, stock_code, price) ==
    LET old   == IF stock_code \in DOMAIN st.price_history
                 THEN st.price_history[stock_code] ELSE <<>>
        added == Append(old, price)
        max_history == st.long_ma_period * HistoryFactor
        kept  == IF Len(added) > max_history THEN LastN(added, max_history)
                 ELSE added
    IN  [st EXCEPT !.price_history =
            [c \in DOMAIN st.price_history \cup {stock_code} |->
                IF c = stock_code THEN kept ELSE st.price_history[c]]]

\* calculate_ma is defined (not None) for this period.
HasMa(st, stock_code, period) ==
    /\ stock_code \in DOMAIN st.price_history
    /\ Len(st.price_history[stock_code]) >= period

\* sum(prices[-period:]); the moving average is this sum over period.
MaSum(st, stock_code, period) ==
    SumSeq(LastN(st.price_history[stock_code], period))

\* The crossover decision without the test current_price > short_ma (a
\* variant, used to test C12).
CrossoverSignalNoPrice(st, stock_code, current_price, held) ==
    IF /\ stock_code \in DOMAIN st.price_history
       /\ Len(st.price_history[stock_code]) >= st.min_history_length
       /\ HasMa(st, stock_code, st.short_ma_period)
       /\ HasMa(st, stock_code, st.long_ma_period)
    THEN LET ss == MaSum(st, stock_code, st.short_ma_period)
             ls == MaSum(st, stock_code, st.long_ma_period)
             sp == st.short_ma_period
             lp == st.long_ma_period
         IN  IF ss * lp > ls * sp /\ ~held
             THEN "buy"
             ELSE IF ss * lp < ls * sp /\ held THEN "sell"
             ELSE "none"
    ELSE "none"

\* The crossover decision with the test of min_history_length only, the
\* averages taken over the prices there are (a variant, used to test C32).
CrossoverSignalMinOnly(st, stock_code, current_price, held) ==
    IF /\ stock_code \in DOMAIN st.price_history
       /\ Len(st.price_history[stock_code]) >= st.min_history_length
    THEN LET ss == MaSum(st, stock_code, st.short_ma_period)
             ls == MaSum(st, stock_code, st.long_ma_period)
             sp == st.short_ma_period
             lp == st.long_ma_period
         IN  IF /\ ss * lp > ls * sp
                /\ current_price * sp > ss
                /\ ~held
             THEN "buy"
             ELSE IF ss * lp < ls * sp /\ held THEN "sell"
             ELSE "none"
    ELSE "none"

\* The crossover decision of on_result, given whether the position is held:
\* "buy", "sell" or "none".  short_ma > long_ma is compared as
\* sum_short * long_period > sum_long * short_period.
CrossoverSignal(st, stock_code, current_price, held) ==
    IF /\ stock_code \in DOMAIN st.price_history
       /\ Len(st.price_history[stock_code]) >= st.min_history_length
       /\ HasMa(st, stock_code, st.short_ma_period)
       /\ HasMa(st, stock_code, st.long_ma_period)
    THEN LET ss == MaSum(st, stock_code, st.short_ma_period)
             ls == MaSum(st, stock_code, st.long_ma_period)
             sp == st.short_ma_period
             lp == st.long_ma_period
         IN  IF /\ ss * lp > ls * sp
                /\ current_price * sp > ss
                /\ ~held
             THEN "buy"
             ELSE IF ss * lp < ls * sp /\ held THEN "sell"
             ELSE "none"
    ELSE "none"

\* QuantStrategy.get_signal: update_price first, then, statement by
\* statement, the early returns and the two tests.  It gives the strategy
\* it leaves and what it returns ("none" for None).
GetSignal(st, stock_code, current_price, held) ==
    LET st2 == StrategyUpdatePrice(st, stock_code, current_price)
        sp  == st2.short_ma_period
        lp  == st2.long_ma_period
        sig ==
          IF stock_code \notin DOMAIN st2.price_history THEN "none"
          ELSE IF Len(st2.price_history[stock_code]) < st2.min_history_length
          THEN "none"
          ELSE IF \/ ~HasMa(st2, stock_code, sp)
                  \/ ~HasMa(st2, stock_code, lp)
          THEN "none"
          ELSE LET ss == MaSum(st2, stock_code, sp)
                   ls == MaSum(st2, stock_code, lp)
               IN  IF ss * lp > ls * sp /\ current_price * sp > ss /\ ~held
                   THEN "buy"
                   ELSE IF ss * lp < ls * sp /\ held
                   THEN "sell"
                   ELSE "none"
    IN  [strategy |-> st2, signal |-> sig]


(***************************************************************************)
(* State                                                                   *)
(***************************************************************************)
VARIABLES
    risk_manager,     \* state.risk_manager: the RiskManager ledger
    strategy,         \* state.strategy: the QuantStrategy
    signals,          \* the signal dicts built so far, by signal_id
    pending_signals,  \* the keys of state.pending_signals (the live table)
    is_running,       \* state.is_running
    engine_running,   \* state.engine_running
    clock,            \* time.time() / datetime.now(), in seconds
    engine,           \* the ingestion threads: position in on_result, locals
    handler,          \* the handler that occupies the event loop, its locals
    liq,              \* the liquidation loops of stop_system, one per stop
    trade_history,    \* state.trade_history
    order_calls,      \* order_cash invocations, by origin
    broadcasts,       \* signal_pending / signal_resolved messages sent
    resolutions,      \* the terminal statuses written to each signal, in order
    budget            \* inputs the environment may still give in this run

vars == << risk_manager, strategy, signals, pending_signals, is_running,
           engine_running, clock, engine, handler, liq, trade_history,
           order_calls, broadcasts, resolutions, budget >>

SignalIds == 1 .. MaxSignals
StopIds   == 1 .. MaxStops

NoSignal == 0

IdleEngine == [pc |-> "unborn", stock_code |-> "", price |-> 0,
               signal |-> "none", reason |-> "", sig |-> NoSignal]

FreeHandler == [pc |-> "free", kind |-> "", signal_id |-> NoSignal,
                stock_code |-> "", signal |-> "", price |-> 0,
                quantity |-> 0, req_quantity |-> 0, result |-> FALSE,
                pnl |-> 0, cfg |-> <<0, 0>>, reason |-> "", response |-> "",
                listing |-> << >>]

IdleLiq == [pc |-> "idle", kind |-> "liquidate", signal |-> "sell",
            todo |-> <<>>, cur |-> <<>>, stock_code |-> "",
            price |-> 0, quantity |-> 0, pnl |-> 0, result |-> FALSE,
            failed |-> {}]

\* The runs explored.  A signal run follows pending signals through their
\* lifetime; a ledger run follows orders, reloads and a stop.
SignalRun == [ticks |-> SignalTicks, orders |-> SignalOrders, reloads |-> 0,
              stops |-> 0, clock |-> MaxClock]
LedgerRun == [ticks |-> LedgerTicks, orders |-> LedgerOrders,
              reloads |-> MaxReloads, stops |-> MaxStops, clock |-> 0]
Budgets   == {SignalRun, LedgerRun}

\* initialize_trading_system: a fresh ledger, strategy and table.
Init ==
    /\ risk_manager = [ account_balance |-> AccountBalance,
                        cfg             |-> DefaultRisk,
                        daily_trades    |-> 0,
                        daily_pnl       |-> 0,
                        positions       |-> << >>,
                        position_order  |-> << >>,
                        last_prices     |-> << >> ]
    /\ strategy = [ price_history      |-> << >>,
                    short_ma_period    |-> InitShortPeriod,
                    long_ma_period     |-> InitLongPeriod,
                    min_history_length |-> InitLongPeriod ]
    /\ signals = << >>
    /\ pending_signals = {}
    /\ is_running = FALSE
    /\ engine_running = FALSE
    /\ clock = 0
    /\ engine = [e \in EngineIds |-> IdleEngine]
    /\ handler = FreeHandler
    /\ liq = [k \in StopIds |-> IdleLiq]
    /\ trade_history = << >>
    /\ order_calls = [approve |-> [i \in SignalIds |-> 0], manual |-> 0,
                      liquidate |-> 0]
    /\ broadcasts = [pending |-> {}, resolved |-> [i \in SignalIds |-> << >>]]
    /\ resolutions = [i \in SignalIds |-> << >>]
    /\ budget \in Budgets

\* A fill that also settles the amount against account_balance (a variant,
\* used to test C40).
FilledSettling(rm, stock_code, price, quantity, action) ==
    LET after == UpdatePosition(rm, stock_code, price, quantity, action, clock)
    IN  [after EXCEPT !.position_order =
            IF action = "buy" /\ stock_code \notin DOMAIN rm.positions
            THEN Append(rm.position_order, stock_code)
            ELSE SelectSeq(rm.position_order,
                           LAMBDA c : c \in DOMAIN after.positions),
                      !.account_balance =
            IF action = "buy" THEN @ - price * quantity
            ELSE @ + price * quantity]

\* The ledger after update_position, with the dict's key order kept.
Filled(rm, stock_code, price, quantity, action) ==
    LET after == UpdatePosition(rm, stock_code, price, quantity, action, clock)
    IN  [after EXCEPT !.position_order =
            IF action = "buy" /\ stock_code \notin DOMAIN rm.positions
            THEN Append(rm.position_order, stock_code)
            ELSE SelectSeq(rm.position_order,
                           LAMBDA c : c \in DOMAIN after.positions)]

\* state.add_trade: append, keep the last 100 (never reached here).
AddTrade(history, stock_code, order_type, quantity, price) ==
    Append(history, [stock_code |-> stock_code, order_type |-> order_type,
                     quantity |-> quantity, price |-> price])

(***************************************************************************)
(* The wall clock                                                          *)
(***************************************************************************)
\* Only differences of times are read (expires_at against now), so the
\* clock is left at 0 until the first signal is built.
AdvanceClock ==
    /\ signals # << >>
    /\ clock + ClockStep <= budget.clock
    /\ clock' = clock + ClockStep
    /\ UNCHANGED << risk_manager, strategy, signals, pending_signals,
                    is_running, engine_running, engine, handler, liq,
                    trade_history, order_calls, broadcasts, resolutions, budget >>

(***************************************************************************)
(* The ingestion thread: _engine_runner and its callback on_result.        *)
(* A row is taken in four steps: the two price updates; the evaluation     *)
(* and _build_pending_signal; _create_or_replace_pending_signal, which     *)
(* waits for pending_signals_lock; and the broadcast.                      *)
(***************************************************************************)
EngineTo(e, pc) == [engine EXCEPT ![e].pc = pc]

\* _engine_runner: the thread's first statement.
EngineBoot(e) ==
    /\ engine[e].pc = "boot"
    /\ engine_running' = TRUE
    /\ engine' = EngineTo(e, "idle")
    /\ UNCHANGED << risk_manager, strategy, signals, pending_signals,
                    is_running, clock, handler, liq, trade_history,
                    order_calls, broadcasts, resolutions, budget >>

\* A message that is taken in although the running flag is off (a variant,
\* used to test C33).
BatchTakenIn(e) ==
    /\ engine[e].pc = "idle"
    /\ ~is_running
    /\ budget.ticks > 0
    /\ budget' = [budget EXCEPT !.ticks = @ - 1]
    /\ risk_manager' = RiskUpdatePrice(risk_manager, "005930", 96)
    /\ UNCHANGED << strategy, signals, pending_signals,
                    is_running, engine_running, clock, engine, handler, liq,
                    trade_history, order_calls, broadcasts,
                    resolutions >>

\* on_result while the running flag is off: the message is dropped.
BatchDropped(e) ==
    /\ engine[e].pc = "idle"
    /\ ~is_running
    /\ budget.ticks > 0
    /\ budget' = [budget EXCEPT !.ticks = @ - 1]
    /\ UNCHANGED << risk_manager, strategy, signals, pending_signals,
                    is_running, engine_running, clock, engine, handler, liq,
                    trade_history, order_calls, broadcasts,
                    resolutions >>

\* on_result with the running flag on and a message of one row: a row
\* without a positive price is skipped; otherwise
\* risk_manager.update_price and strategy.update_price.
TickIngest(e, stock_code, price) ==
    /\ engine[e].pc = "idle"
    /\ is_running
    /\ budget.ticks > 0
    /\ budget' = [budget EXCEPT !.ticks = @ - 1]
    /\ IF price <= 0
       THEN UNCHANGED << engine, risk_manager, strategy >>
       ELSE /\ engine' = [engine EXCEPT ![e] =
                            [IdleEngine EXCEPT !.pc = "evaluate",
                                               !.stock_code = stock_code,
                                               !.price = price]]
            /\ risk_manager' = RiskUpdatePrice(risk_manager, stock_code, price)
            /\ strategy' = StrategyUpdatePrice(strategy, stock_code, price)
    /\ UNCHANGED << signals, pending_signals, is_running, engine_running,
                    clock, handler, liq, trade_history, order_calls,
                    broadcasts,
                    resolutions >>

\* check_stop_loss_take_profit: "sell" (TRUE) or None.
CheckStopLossTakeProfit(rm, stock_code, current_price) ==
    /\ stock_code \in DOMAIN rm.positions
    /\ StopLossTakeProfit(rm, rm.positions[stock_code].buy_price,
                          current_price)

\* The decision with the crossover taken first (a variant, used to test
\* C13).
RowSignalCrossFirst(rm, st, stock_code, price) ==
    LET x == CrossoverSignal(st, stock_code, price,
                             stock_code \in DOMAIN rm.positions)
    IN  IF x # "none" THEN [signal |-> x, reason |-> "cross"]
        ELSE IF CheckStopLossTakeProfit(rm, stock_code, price)
        THEN [signal |-> "sell", reason |-> "stop"]
        ELSE [signal |-> "none", reason |-> "cross"]

\* What on_result decides for a row: the stop-loss/take-profit sell first,
\* the crossover signal otherwise.
RowSignal(rm, st, stock_code, price) ==
    IF CheckStopLossTakeProfit(rm, stock_code, price)
    THEN [signal |-> "sell", reason |-> "stop"]
    ELSE [signal |-> CrossoverSignal(st, stock_code, price,
                                     stock_code \in DOMAIN rm.positions),
          reason |-> "cross"]

\* suggested_qty of _build_pending_signal.
SuggestedQty(rm, stock_code, signal, price) ==
    IF signal = "buy" THEN CalculateQuantity(rm, price)
    ELSE IF signal = "sell" /\ stock_code \in DOMAIN rm.positions
    THEN rm.positions[stock_code].quantity
    ELSE 0

NextId == Len(signals) + 1

\* The dict _build_pending_signal returns.
BuildPendingSignal(rm, stock_code, signal, price, reason, now) ==
    [ signal_id     |-> NextId,
      stock_code    |-> stock_code,
      signal        |-> signal,
      price         |-> price,
      suggested_qty |-> SuggestedQty(rm, stock_code, signal, price),
      reason        |-> reason,
      created_at    |-> now,
      expires_at    |-> now + SignalTTL,
      status        |-> "pending" ]

\* An evaluation that places the order itself instead of building a
\* pending signal (a variant, used to test C22).
TickEvaluateExecuting(e) ==
    /\ engine[e].pc = "evaluate"
    /\ LET d == RowSignal(risk_manager, strategy, engine[e].stock_code,
                          engine[e].price)
       IN  order_calls' = IF d.signal = "none" THEN order_calls
                          ELSE [order_calls EXCEPT !.manual = @ + 1]
    /\ engine' = EngineTo(e, "idle")
    /\ UNCHANGED << risk_manager, strategy, signals, pending_signals,
                    is_running, engine_running, clock, handler, liq,
                    trade_history, broadcasts, resolutions, budget >>

\* The evaluation of a row and, when it gives a signal, the signal dict.
TickEvaluate(e) ==
    /\ engine[e].pc = "evaluate"
    /\ LET d == RowSignal(risk_manager, strategy, engine[e].stock_code,
                          engine[e].price)
       IN  IF d.signal = "none"
           THEN /\ engine' = EngineTo(e, "idle")
                /\ UNCHANGED signals
           ELSE /\ NextId <= MaxSignals
                /\ signals' = Append(signals,
                       BuildPendingSignal(risk_manager, engine[e].stock_code,
                                          d.signal, engine[e].price, d.reason,
                                          clock))
                /\ engine' = [engine EXCEPT ![e].pc = "create",
                                            ![e].signal = d.signal,
                                            ![e].reason = d.reason,
                                            ![e].sig = NextId]
    /\ UNCHANGED << risk_manager, strategy, pending_signals, is_running,
                    engine_running, clock, handler, liq, trade_history,
                    order_calls, broadcasts, resolutions, budget >>

\* A sweep that keeps the entries whose time has passed (a variant, used
\* to test C31).
SweptTerminalOnly(table, objs, now_ts) ==
    { k \in table : objs[k].status # "pending" }

\* The sweep of _create_or_replace_pending_signal: the keys it drops.
Swept(table, objs, now_ts) ==
    { k \in table : objs[k].status # "pending" \/ objs[k].expires_at < now_ts }

\* A create that replaces nothing (a variant, used to test C4).
ReplacedNone(table, objs, new) == {}

\* The keys it then drops for the same stock_code and direction.
Replaced(table, objs, new) ==
    { k \in table : /\ objs[k].status = "pending"
                    /\ objs[k].stock_code = new.stock_code
                    /\ objs[k].signal = new.signal }

\* The table after _create_or_replace_pending_signal(new).
CreateOrReplace(table, objs, new, now_ts) ==
    LET kept == table \ Swept(table, objs, now_ts)
    IN  (kept \ Replaced(kept, objs, new)) \cup {new.signal_id}

\* _create_or_replace_pending_signal, under pending_signals_lock.
TickCreate(e) ==
    /\ engine[e].pc = "create"
    /\ pending_signals' = CreateOrReplace(pending_signals, signals,
                                          signals[engine[e].sig], clock)
    /\ engine' = EngineTo(e, "bcast")
    /\ UNCHANGED << risk_manager, strategy, signals, is_running,
                    engine_running, clock, handler, liq, trade_history,
                    order_calls, broadcasts, resolutions, budget >>

\* _run_async_broadcast({"type": "signal_pending", ...})
TickBroadcast(e) ==
    /\ engine[e].pc = "bcast"
    /\ broadcasts' = [broadcasts EXCEPT !.pending = @ \cup {engine[e].sig}]
    /\ engine' = EngineTo(e, "idle")
    /\ UNCHANGED << risk_manager, strategy, signals, pending_signals,
                    is_running, engine_running, clock, handler, liq,
                    trade_history, order_calls, resolutions, budget >>

(***************************************************************************)
(* safe_execute_order(manual_approval=False), as run by a caller r (the    *)
(* handler record or a liquidation record).  It is taken in two steps:     *)
(* up to the call of order_cash, and from its return.                      *)
(***************************************************************************)

\* The quantity the order is placed with: calculate_quantity for a buy, the
\* held quantity for a sell.
OrderQuantity(rm, r) ==
    IF r.signal = "buy" THEN CalculateQuantity(rm, r.price)
    ELSE IF r.stock_code \in DOMAIN rm.positions
    THEN rm.positions[r.stock_code].quantity
    ELSE 0

\* An order gate that puts a sell through the trade count and the loss limit
\* as well (a variant, used to test C37).
OrderPlacedGated(rm, r) ==
    IF r.signal = "buy"
    THEN CanTrade(rm, r.stock_code, r.price, CalculateQuantity(rm, r.price))
            = "OK"
    ELSE /\ r.signal = "sell"
         /\ r.stock_code \in DOMAIN rm.positions
         /\ ~TradeCountExceeded(rm)
         /\ ~DailyLossExceeded(rm)

\* Whether order_cash is reached: a buy passes can_trade, a sell finds the
\* position.
OrderPlaced(rm, r) ==
    IF r.signal = "buy"
    THEN CanTrade(rm, r.stock_code, r.price, CalculateQuantity(rm, r.price))
            = "OK"
    ELSE r.signal = "sell" /\ r.stock_code \in DOMAIN rm.positions

\* Why order_cash is not reached: the reason can_trade gives (logged by
\* safe_execute_order), or the sell without a position.
Refusal(rm, r) ==
    IF r.signal = "buy"
    THEN CanTrade(rm, r.stock_code, r.price, CalculateQuantity(rm, r.price))
    ELSE "not_held"

\* order_cash returned: a non-empty result (ok) updates the ledger.
ExecOrderLedger(rm, r, ok) ==
    IF ok THEN Filled(rm, r.stock_code, r.price, r.quantity, r.signal) ELSE rm

\* The pnl update_position hands back to safe_execute_order.
OrderPnl(rm, r, ok) ==
    IF ok
    THEN UpdatePositionResult(rm, r.stock_code, r.price, r.quantity, r.signal)
    ELSE 0

\* order_cash is invoked on behalf of the caller r.
CountCall(r) ==
    IF r.kind = "approve"
    THEN [order_calls EXCEPT !.approve[r.signal_id] = @ + 1]
    ELSE IF r.kind = "manual"
    THEN [order_calls EXCEPT !.manual = @ + 1]
    ELSE [order_calls EXCEPT !.liquidate = @ + 1]

(***************************************************************************)
(* Request handlers (coroutines of the event loop)                         *)
(***************************************************************************)
Respond(msg) == [FreeHandler EXCEPT !.response = msg]

\* The answer to an order safe_execute_order refused.
Refused(msg, reason) ==
    [FreeHandler EXCEPT !.response = msg, !.reason = reason]

\* The handler enters safe_execute_order as caller r.
EnterOrder(r) ==
    IF OrderPlaced(risk_manager, r)
    THEN /\ handler' = [r EXCEPT !.pc = "exec_order",
                                 !.quantity = OrderQuantity(risk_manager, r)]
         /\ order_calls' = CountCall(r)
    ELSE /\ handler' = [r EXCEPT !.pc = "finish", !.result = FALSE,
                                 !.reason = Refusal(risk_manager, r)]
         /\ UNCHANGED order_calls

\* The expiry test with the comparison turned round (a variant, used to
\* test C1).
ExpiredTurned(sig, now_ts) == sig.expires_at > now_ts

\* The expiry test of approve_signal.
Expired(sig, now_ts) == sig.expires_at < now_ts

\* A status test that takes every entry for pending (a variant, used to
\* test C15).
ResolvedNever(sig) == FALSE

\* The status test of approve_signal.
Resolved(sig) == sig.status # "pending"

\* approve_signal: the first critical section and, for a pending unexpired
\* signal, safe_execute_order up to order_cash.
ApproveCheck(signal_id) ==
    /\ handler.pc = "free"
    /\ IF signal_id \notin pending_signals
       THEN /\ handler' = Respond("not_found")
            /\ UNCHANGED << signals, order_calls, resolutions >>
       ELSE IF Resolved(signals[signal_id])
       THEN /\ handler' = Respond("already_resolved")
            /\ UNCHANGED << signals, order_calls, resolutions >>
       ELSE IF Expired(signals[signal_id], clock)
       THEN /\ signals' = [signals EXCEPT ![signal_id].status = "expired"]
            /\ resolutions' = [resolutions EXCEPT
                                 ![signal_id] = Append(@, "expired")]
            /\ handler' = Respond("expired")
            /\ UNCHANGED order_calls
       ELSE /\ EnterOrder([FreeHandler EXCEPT
                             !.kind = "approve",
                             !.signal_id = signal_id,
                             !.stock_code = signals[signal_id].stock_code,
                             !.signal = signals[signal_id].signal,
                             !.price = signals[signal_id].price])
            /\ UNCHANGED << signals, resolutions >>
    /\ UNCHANGED << risk_manager, strategy, pending_signals, is_running,
                    engine_running, clock, engine, liq, trade_history,
                    broadcasts, budget >>

\* order_cash returns to approve_signal (ok: a non-empty result; otherwise
\* an empty result or an exception), then update_position.
ApproveOrderReturns(ok) ==
    /\ handler.pc = "exec_order"
    /\ handler.kind = "approve"
    /\ risk_manager' = ExecOrderLedger(risk_manager, handler, ok)
    /\ handler' = [handler EXCEPT !.pc = "finish", !.result = ok,
                                  !.pnl = OrderPnl(risk_manager, handler, ok)]
    /\ UNCHANGED << strategy, signals, pending_signals, is_running,
                    engine_running, clock, engine, liq, trade_history,
                    order_calls, broadcasts, resolutions, budget >>

\* approve_signal: the second critical section, the trade record and the
\* signal_resolved broadcast.
ApproveResolve ==
    /\ handler.pc = "finish"
    /\ handler.kind = "approve"
    /\ LET id     == handler.signal_id
           status == IF handler.result THEN "approved" ELSE "failed"
       IN  /\ IF id \in pending_signals
              THEN /\ signals' = [signals EXCEPT ![id].status = status]
                   /\ resolutions' = [resolutions EXCEPT
                                        ![id] = Append(@, status)]
                   /\ pending_signals' = pending_signals \ {id}
              ELSE UNCHANGED << signals, pending_signals, resolutions >>
           /\ trade_history' =
                IF handler.result
                THEN AddTrade(trade_history, signals[id].stock_code,
                              signals[id].signal, signals[id].suggested_qty,
                              signals[id].price)
                ELSE trade_history
           /\ broadcasts' = [broadcasts EXCEPT
                               !.resolved[id] = Append(@, status)]
           /\ handler' = Refused(status, handler.reason)
    /\ UNCHANGED << risk_manager, strategy, is_running, engine_running,
                    clock, engine, liq, order_calls, budget >>

\* execute_manual_order up to order_cash.  A buy at price None or 0
\* divides by zero in calculate_quantity, and the handler's except answers
\* with the error; an order safe_execute_order refuses is answered at once.
ManualOrder(stock_code, order_type, quantity, price) ==
    /\ handler.pc = "free"
    /\ budget.orders > 0
    /\ budget' = [budget EXCEPT !.orders = @ - 1]
    /\ LET r == [FreeHandler EXCEPT
                   !.kind = "manual", !.stock_code = stock_code,
                   !.signal = order_type, !.price = price,
                   !.req_quantity = quantity]
       IN  IF order_type = "buy" /\ price = 0
           THEN /\ handler' = Respond("error")
                /\ UNCHANGED order_calls
           ELSE IF OrderPlaced(risk_manager, r)
           THEN /\ handler' = [r EXCEPT
                                 !.pc = "exec_order",
                                 !.quantity = OrderQuantity(risk_manager, r)]
                /\ order_calls' = CountCall(r)
           ELSE /\ handler' = Refused("order_failed",
                                       Refusal(risk_manager, r))
                /\ UNCHANGED order_calls
    /\ UNCHANGED << risk_manager, strategy, signals, pending_signals,
                    is_running, engine_running, clock, engine, liq,
                    trade_history, broadcasts,
                    resolutions >>

\* order_cash returns to execute_manual_order, then update_position, the
\* trade record (with the quantity of the request) and the answer.
ManualOrderReturns(ok) ==
    /\ handler.pc = "exec_order"
    /\ handler.kind = "manual"
    /\ risk_manager' = ExecOrderLedger(risk_manager, handler, ok)
    /\ trade_history' =
         IF ok
         THEN AddTrade(trade_history, handler.stock_code, handler.signal,
                       handler.req_quantity, handler.price)
         ELSE trade_history
    /\ handler' = [Respond(IF ok THEN "ordered" ELSE "order_failed")
                     EXCEPT !.pnl = OrderPnl(risk_manager, handler, ok)]
    /\ UNCHANGED << strategy, signals, pending_signals, is_running,
                    engine_running, clock, engine, liq, order_calls,
                    broadcasts, resolutions, budget >>

\* The expiry filter with a strict comparison (a variant, used to test
\* C16).
UnexpiredStrict(sig, now_ts) == sig.expires_at > now_ts

\* The expiry filter of get_pending_signals.
Unexpired(sig, now_ts) == sig.expires_at >= now_ts

\* list.sort(key=created_at, reverse=True) of the entries ids, given in the
\* dict's order: descending created_at, entries of equal created_at in the
\* order they had (the sort is stable).
RECURSIVE SortByCreatedDesc(_, _)
SortByCreatedDesc(ids, objs) ==
    IF ids = << >> THEN << >>
    ELSE LET first == CHOOSE i \in 1 .. Len(ids) :
                         /\ \A j \in 1 .. Len(ids) :
                               objs[ids[j]].created_at <= objs[ids[i]].created_at
                         /\ \A j \in 1 .. (i - 1) :
                               objs[ids[j]].created_at < objs[ids[i]].created_at
             rest  == [ j \in 1 .. (Len(ids) - 1) |->
                          IF j < first THEN ids[j] ELSE ids[j + 1] ]
         IN  << ids[first] >> \o SortByCreatedDesc(rest, objs)

\* The values of state.pending_signals in the dict's order: signal ids are
\* inserted once each, in the order they were built.
TableValues(table) ==
    LET RECURSIVE Upto(_)
        Upto(k) == IF k = 0 THEN << >>
                   ELSE IF k \in table THEN Append(Upto(k - 1), k)
                   ELSE Upto(k - 1)
    IN  Upto(MaxSignals)

\* The list get_pending_signals answers with.
PendingList(table, objs, now_ts) ==
    SortByCreatedDesc(
        SelectSeq(TableValues(table),
                  LAMBDA k : /\ objs[k].status = "pending"
                             /\ Unexpired(objs[k], now_ts)),
        objs)

\* get_pending_signals
GetPendingSignals ==
    /\ handler.pc = "free"
    /\ handler' = [Respond("listed") EXCEPT
                     !.listing = PendingList(pending_signals, signals, clock)]
    /\ UNCHANGED << risk_manager, strategy, signals, pending_signals,
                    is_running, engine_running, clock, engine, liq,
                    trade_history, order_calls, broadcasts, resolutions,
                    budget >>

\* reject_signal
RejectSignal(signal_id) ==
    /\ handler.pc = "free"
    /\ IF signal_id \notin pending_signals
       THEN /\ handler' = Respond("not_found")
            /\ UNCHANGED << signals, pending_signals, broadcasts,
                            resolutions >>
       ELSE /\ signals' = [signals EXCEPT ![signal_id].status = "rejected"]
            /\ resolutions' = [resolutions EXCEPT
                                 ![signal_id] = Append(@, "rejected")]
            /\ pending_signals' = pending_signals \ {signal_id}
            /\ broadcasts' = [broadcasts EXCEPT
                                !.resolved[signal_id] = Append(@, "rejected")]
            /\ handler' = Respond("rejected")
    /\ UNCHANGED << risk_manager, strategy, is_running, engine_running,
                    clock, engine, liq, trade_history, order_calls, budget >>

\* update_risk_config: the six assignments, made without a test of the
\* values.  The configurations of
\* RiskConfigs differ from the defaults in no field the ingestion thread
\* reads, so the assignments are taken in one step.
UpdateRiskConfig(cfg) ==
    /\ handler.pc = "free"
    /\ budget.reloads > 0
    /\ budget' = [budget EXCEPT !.reloads = @ - 1]
    /\ risk_manager' = [risk_manager EXCEPT !.cfg = cfg]
    /\ handler' = Respond("risk_updated")
    /\ UNCHANGED << strategy, signals, pending_signals, is_running,
                    engine_running, clock, engine, liq, trade_history,
                    order_calls, broadcasts,
                    resolutions >>

\* The validation without the test short_period >= long_period (a variant,
\* used to test C18).
ValidStrategyNoOrder(short_period, long_period) ==
    ~(short_period < 2 \/ long_period < 3)

\* The validation of update_strategy_config.
ValidStrategy(short_period, long_period) ==
    /\ ~(short_period < 2 \/ long_period < 3)
    /\ ~(short_period >= long_period)

\* update_strategy_config: validation and the first assignment.
UpdateStrategyConfig(cfg) ==
    /\ handler.pc = "free"
    /\ budget.reloads > 0
    /\ budget' = [budget EXCEPT !.reloads = @ - 1]
    /\ IF ValidStrategy(cfg[1], cfg[2])
       THEN /\ strategy' = [strategy EXCEPT !.short_ma_period = cfg[1]]
            /\ handler' = [FreeHandler EXCEPT !.pc = "strategy_long",
                                              !.kind = "strategy",
                                              !.cfg = cfg]
       ELSE /\ handler' = Respond("invalid")
            /\ UNCHANGED strategy
    /\ UNCHANGED << risk_manager, signals, pending_signals, is_running,
                    engine_running, clock, engine, liq, trade_history,
                    order_calls, broadcasts,
                    resolutions >>

\* state.strategy.long_ma_period = long_period
StrategySetLong ==
    /\ handler.pc = "strategy_long"
    /\ strategy' = [strategy EXCEPT !.long_ma_period = handler.cfg[2]]
    /\ handler' = [handler EXCEPT !.pc = "strategy_min"]
    /\ UNCHANGED << risk_manager, signals, pending_signals, is_running,
                    engine_running, clock, engine, liq, trade_history,
                    order_calls, broadcasts, resolutions, budget >>

\* state.strategy.min_history_length = long_period
StrategySetMinHistory ==
    /\ handler.pc = "strategy_min"
    /\ strategy' = [strategy EXCEPT !.min_history_length = handler.cfg[2]]
    /\ handler' = Respond("strategy_updated")
    /\ UNCHANGED << risk_manager, signals, pending_signals, is_running,
                    engine_running, clock, engine, liq, trade_history,
                    order_calls, broadcasts, resolutions, budget >>

Unborn == { e \in DOMAIN engine : engine[e].pc = "unborn" }

\* start_system and _start_trading_engine_thread.  A thread is started
\* unless state.engine_running is set.
StartSystem ==
    /\ handler.pc = "free"
    /\ IF is_running
       THEN /\ handler' = Respond("already_running")
            /\ UNCHANGED << is_running, engine >>
       ELSE /\ is_running' = TRUE
            /\ handler' = Respond("started")
            /\ IF engine_running
               THEN UNCHANGED engine
               ELSE /\ Unborn # {}
                    /\ engine' = EngineTo(CHOOSE e \in Unborn :
                                            \A f \in Unborn : e <= f, "boot")
    /\ UNCHANGED << risk_manager, strategy, signals, pending_signals,
                    engine_running, clock, liq, trade_history, order_calls,
                    broadcasts, resolutions, budget >>

\* list(state.risk_manager.positions.items()), in the dict's key order.
PositionsSnapshot(rm) ==
    [ i \in 1 .. Len(rm.position_order) |->
        [ stock_code |-> rm.position_order[i],
          quantity   |-> rm.positions[rm.position_order[i]].quantity,
          buy_price  |-> rm.positions[rm.position_order[i]].buy_price ] ]

\* stop_system up to its first await.
StopSystem(liquidate) ==
    /\ handler.pc = "free"
    /\ budget.stops > 0
    /\ budget' = [budget EXCEPT !.stops = @ - 1]
    /\ is_running' = FALSE
    /\ pending_signals' = {}
    /\ liq' = IF liquidate
              THEN [liq EXCEPT ![budget.stops] =
                      [IdleLiq EXCEPT !.pc = "resume",
                                      !.todo = PositionsSnapshot(risk_manager)]]
              ELSE liq
    /\ handler' = Respond("stopped")
    /\ UNCHANGED << risk_manager, strategy, signals, engine_running, clock,
                    engine, trade_history, order_calls, broadcasts,
                    resolutions >>

\* The price stop_system sells at: last_prices.get(code, buy_price), and
\* buy_price again when that is 0.
LiquidationPrice(rm, pos) ==
    LET p == IF pos.stock_code \in DOMAIN rm.last_prices
             THEN rm.last_prices[pos.stock_code] ELSE pos.buy_price
    IN  IF p = 0 THEN pos.buy_price ELSE p

\* stop_system's loop, on the event loop: the trade record of the sell that
\* just returned; then the next position of the snapshot is handed to a
\* worker thread, which runs safe_execute_order up to order_cash.
LiqResume(k) ==
    /\ handler.pc = "free"
    /\ liq[k].pc = "resume"
    /\ trade_history' =
         IF liq[k].result
         THEN AddTrade(trade_history, liq[k].cur.stock_code, "sell",
                       liq[k].cur.quantity, liq[k].price)
         ELSE trade_history
    /\ IF liq[k].todo = << >>
       THEN /\ liq' = [liq EXCEPT ![k].pc = "idle", ![k].result = FALSE]
            /\ UNCHANGED order_calls
       ELSE LET pos == Head(liq[k].todo)
                r   == [liq[k] EXCEPT
                          !.cur = pos,
                          !.todo = Tail(liq[k].todo),
                          !.stock_code = pos.stock_code,
                          !.price = LiquidationPrice(risk_manager, pos),
                          !.result = FALSE]
            IN  IF OrderPlaced(risk_manager, r)
                THEN /\ liq' = [liq EXCEPT ![k] =
                                  [r EXCEPT !.pc = "exec_order",
                                            !.quantity =
                                               OrderQuantity(risk_manager, r)]]
                     /\ order_calls' = CountCall(r)
                ELSE /\ liq' = [liq EXCEPT ![k] = r]
                     /\ UNCHANGED order_calls
    /\ UNCHANGED << risk_manager, strategy, signals, pending_signals,
                    is_running, engine_running, clock, engine, handler,
                    broadcasts, resolutions, budget >>

\* A return of order_cash after which a failure ends the loop (a variant,
\* used to test C24).
LiqOrderReturnsAborting(k, ok) ==
    /\ liq[k].pc = "exec_order"
    /\ risk_manager' = ExecOrderLedger(risk_manager, liq[k], ok)
    /\ liq' = [liq EXCEPT ![k].pc = "resume", ![k].result = ok,
                          ![k].pnl = OrderPnl(risk_manager, liq[k], ok),
                          ![k].todo = IF ok THEN @ ELSE << >>,
                          ![k].failed = IF ok THEN @
                                        ELSE @ \cup {liq[k].stock_code}]
    /\ UNCHANGED << strategy, signals, pending_signals, is_running,
                    engine_running, clock, engine, handler, trade_history,
                    order_calls, broadcasts, resolutions, budget >>

\* order_cash returns on the worker thread, then update_position; a failed
\* order is logged by safe_execute_order with its stock_code (failed).
LiqOrderReturns(k, ok) ==
    /\ liq[k].pc = "exec_order"
    /\ risk_manager' = ExecOrderLedger(risk_manager, liq[k], ok)
    /\ liq' = [liq EXCEPT ![k].pc = "resume", ![k].result = ok,
                          ![k].pnl = OrderPnl(risk_manager, liq[k], ok),
                          ![k].failed = IF ok THEN @
                                        ELSE @ \cup {liq[k].stock_code}]
    /\ UNCHANGED << strategy, signals, pending_signals, is_running,
                    engine_running, clock, engine, handler, trade_history,
                    order_calls, broadcasts, resolutions, budget >>

(***************************************************************************)
(* The specification                                                       *)
(***************************************************************************)
Next ==
    \/ AdvanceClock
    \/ \E e \in EngineIds : EngineBoot(e)
    \/ \E e \in EngineIds : BatchDropped(e)
    \/ \E e \in EngineIds, c \in Symbols, p \in Prices \cup BadPrices :
          TickIngest(e, c, p)
    \/ \E e \in EngineIds : TickEvaluate(e)
    \/ \E e \in EngineIds : TickCreate(e)
    \/ \E e \in EngineIds : TickBroadcast(e)
    \/ \E id \in SignalIds : ApproveCheck(id)
    \/ \E ok \in BOOLEAN : ApproveOrderReturns(ok)
    \/ ApproveResolve
    \/ \E id \in SignalIds : RejectSignal(id)
    \/ \E c \in Symbols, t \in {"buy", "sell"}, q \in OrderQuantities,
          p \in OrderPrices : ManualOrder(c, t, q, p)
    \/ \E ok \in BOOLEAN : ManualOrderReturns(ok)
    \/ \E cfg \in RiskConfigs : UpdateRiskConfig(cfg)
    \/ \E cfg \in StrategyConfigs : UpdateStrategyConfig(cfg)
    \/ StrategySetLong
    \/ StrategySetMinHistory
    \/ StartSystem
    \/ \E l \in BOOLEAN : StopSystem(l)
    \/ \E k \in StopIds : LiqResume(k)
    \/ \E k \in StopIds, ok \in BOOLEAN : LiqOrderReturns(k, ok)

Spec == Init /\ [][Next]_vars

(***************************************************************************)
(* calculate_quantity over ledgers of any balance and limits               *)
(***************************************************************************)
QuantityBalances == {999, 20000, 100000}
QuantityRatios   == {100, 500, 1000}         \* 0.1, 0.5, 1.0
QuantityLimits   == {5000, 1000000}
QuantityPrices   == {7, 96, 100, 3000, 10000, 50000}

\* A fresh system whose ledger has one of the balances and limits above.
InitQuantity ==
    /\ \E b \in QuantityBalances, r \in QuantityRatios, m \in QuantityLimits :
          risk_manager =
             [ account_balance |-> b,
               cfg             |-> [DefaultRisk EXCEPT
                                      !.max_position_size_ratio = r,
                                      !.max_single_trade_amount = m],
               daily_trades    |-> 0,
               daily_pnl       |-> 0,
               positions       |-> << >>,
               position_order  |-> << >>,
               last_prices     |-> << >> ]
    /\ strategy = [ price_history      |-> << >>,
                    short_ma_period    |-> InitShortPeriod,
                    long_ma_period     |-> InitLongPeriod,
                    min_history_length |-> InitLongPeriod ]
    /\ signals = << >>
    /\ pending_signals = {}
    /\ is_running = FALSE
    /\ engine_running = FALSE
    /\ clock = 0
    /\ engine = [e \in EngineIds |-> IdleEngine]
    /\ handler = FreeHandler
    /\ liq = [k \in StopIds |-> IdleLiq]
    /\ trade_history = << >>
    /\ order_calls = [approve |-> [i \in SignalIds |-> 0], manual |-> 0,
                      liquidate |-> 0]
    /\ broadcasts = [pending |-> {}, resolved |-> [i \in SignalIds |-> << >>]]
    /\ resolutions = [i \in SignalIds |-> << >>]
    /\ budget = [ticks |-> 0, orders |-> 0, reloads |-> 0, stops |-> 0,
                 clock |-> 0]

\* A caller evaluates risk_manager.calculate_quantity(price) and keeps the
\* price and the quantity returned.
QuantityCall(price) ==
    /\ handler' = [FreeHandler EXCEPT
                     !.kind = "quantity", !.price = price,
                     !.quantity = CalculateQuantity(risk_manager, price)]
    /\ UNCHANGED << risk_manager, strategy, signals, pending_signals,
                    is_running, engine_running, clock, engine, liq,
                    trade_history, order_calls, broadcasts, resolutions,
                    budget >>

NextQuantity == \E price \in QuantityPrices : QuantityCall(price)

SpecQuantity == InitQuantity /\ [][NextQuantity]_vars

(***************************************************************************)
(* Steps the properties speak of                                           *)
(***************************************************************************)
Ledger == << risk_manager.positions, risk_manager.daily_trades,
             risk_manager.daily_pnl >>

\* order_cash returns a fill to the handler's order.
HandlerFill == ApproveOrderReturns(TRUE) \/ ManualOrderReturns(TRUE)

\* A buy is filled (buys are placed by the handlers only).
BuyFill == handler.signal = "buy" /\ HandlerFill

\* A sell of the handler, or of the liquidation loop k, is filled.
HandlerSellFill == handler.signal = "sell" /\ HandlerFill
LiqSellFill(k)  == LiqOrderReturns(k, TRUE)

\* The pending entries of the table for a stock_code and a direction.
PendingFor(table, objs, stock_code, signal) ==
    { k \in table : /\ objs[k].status = "pending"
                    /\ objs[k].stock_code = stock_code
                    /\ objs[k].signal = signal }

(***************************************************************************)
(* C1  approve after expiry                                                *)
(***************************************************************************)
\* An approve of signal id that finds its entry in the table, past expires_at.
LateApprove(id) ==
    /\ id \in pending_signals
    /\ signals[id].expires_at < clock
    /\ ApproveCheck(id)

\* C1 (as stated): an approve on an entry whose expires_at has passed answers
\* "expired", does not invoke order_cash, and leaves positions, daily_trades
\* and daily_pnl as they were.
C1_LateApproveAnswersExpired ==
    [][\A id \in SignalIds :
          LateApprove(id) =>
             /\ handler'.response = "expired"
             /\ order_calls' = order_calls
             /\ Ledger' = Ledger]_vars

\* C1 (amended): an approve on an entry whose expires_at has passed never
\* invokes order_cash and leaves positions, daily_trades and daily_pnl as
\* they were; it answers "expired" and marks the entry expired when the entry
\* is still pending, and answers "already_resolved" when the entry was marked
\* before (an expired entry stays in the table).
C1_LateApproveNeverExecutes ==
    [][\A id \in SignalIds :
          LateApprove(id) =>
             /\ order_calls' = order_calls
             /\ Ledger' = Ledger
             /\ handler'.pc = "free"
             /\ IF signals[id].status = "pending"
                THEN /\ handler'.response = "expired"
                     /\ signals'[id].status = "expired"
                ELSE /\ handler'.response = "already_resolved"
                     /\ signals' = signals]_vars

\* An approve has just answered "expired"; order_cash was never invoked for
\* the signal.
C1_Witness ==
    /\ handler.response = "expired"
    /\ \E id \in pending_signals :
          /\ signals[id].status = "expired"
          /\ signals[id].expires_at < clock
          /\ order_calls.approve[id] = 0

(***************************************************************************)
(* C2  resolution exactly once                                             *)
(***************************************************************************)
\* C2: for every signal id, order_cash is invoked at most once, the signal
\* is given at most one terminal status, and a signal whose resolution was
\* announced (signal_resolved) holds exactly one terminal status.
C2_ResolvedExactlyOnce ==
    \A id \in SignalIds :
       /\ order_calls.approve[id] <= 1
       /\ Len(resolutions[id]) <= 1
       /\ broadcasts.resolved[id] # << >> => Len(resolutions[id]) = 1

(***************************************************************************)
(* C3  terminal statuses are immutable                                     *)
(***************************************************************************)
\* C3: once the status of a signal is approved, rejected, failed or expired,
\* no step changes it.
C3_TerminalImmutable ==
    [][\A id \in 1 .. Len(signals) :
          signals[id].status \in Terminal =>
             signals'[id].status = signals[id].status]_vars

(***************************************************************************)
(* C4  one pending entry per (stock_code, direction)                       *)
(***************************************************************************)
OnePendingPerPair ==
    \A c \in Symbols, d \in {"buy", "sell"} :
       Cardinality(PendingFor(pending_signals, signals, c, d)) <= 1

\* C4: the table never holds two pending entries for one stock_code and
\* direction; and a create leaves, for the pair of the new signal, the new
\* entry as the only pending one, having changed the status of no signal.
C4_OnePendingPerPair ==
    [][/\ OnePendingPerPair'
       /\ \A e \in EngineIds :
             TickCreate(e) =>
                LET new == signals[engine[e].sig]
                IN  /\ PendingFor(pending_signals', signals', new.stock_code,
                                  new.signal) = {new.signal_id}
                    /\ signals' = signals]_vars

\* A second create for a pair has replaced the first: the first signal is
\* out of the table with its status still pending.
C4_Witness ==
    \E a, b \in 1 .. Len(signals) :
       /\ a < b
       /\ signals[a].stock_code = signals[b].stock_code
       /\ signals[a].signal = signals[b].signal
       /\ signals[a].status = "pending"
       /\ signals[a].expires_at >= clock
       /\ a \notin pending_signals
       /\ b \in pending_signals
       /\ is_running

(***************************************************************************)
(* C5  no pyramiding                                                       *)
(***************************************************************************)
\* C5: a buy is filled only for a stock_code without a position, and no
\* step changes the buy_price or quantity of a position that stays open.
C5_NoPyramiding ==
    [][/\ BuyFill => handler.stock_code \notin DOMAIN risk_manager.positions
       /\ \A c \in DOMAIN risk_manager.positions :
             c \in DOMAIN risk_manager.positions' =>
                risk_manager.positions'[c] = risk_manager.positions[c]]_vars

\* A buy of a held stock_code was refused by rule 5, and the position is as
\* it was bought.
C5_Witness ==
    /\ handler.reason = "already_held"
    /\ risk_manager.positions # << >>
    /\ risk_manager.daily_trades = 1
    /\ order_calls.manual = 1

(***************************************************************************)
(* C6  trade-count limit                                                   *)
(***************************************************************************)
\* C6: in a step that leaves the risk configuration as it is, daily_trades
\* does not pass max_trades_per_day, and once daily_trades has reached
\* max_trades_per_day no buy is filled: daily_trades stays and no position
\* is opened.
C6_TradeCountLimit ==
    [][risk_manager'.cfg = risk_manager.cfg =>
          /\ risk_manager.daily_trades <= risk_manager.cfg.max_trades_per_day
                => risk_manager'.daily_trades
                      <= risk_manager.cfg.max_trades_per_day
          /\ risk_manager.daily_trades >= risk_manager.cfg.max_trades_per_day
                => /\ risk_manager'.daily_trades = risk_manager.daily_trades
                   /\ DOMAIN risk_manager'.positions
                         \subseteq DOMAIN risk_manager.positions
                   /\ ~BuyFill]_vars

\* With one trade a day allowed and one made, a further buy was refused by
\* rule 1.
C6_Witness ==
    /\ risk_manager.cfg = OneTradeRisk
    /\ risk_manager.daily_trades = 1
    /\ handler.reason = "trade_count"
    /\ order_calls.manual = 1

(***************************************************************************)
(* C7  daily-loss circuit breaker                                          *)
(***************************************************************************)
\* C7: in every state where daily_pnl <= -daily_loss_limit, no step opens a
\* position or increases daily_trades.
C7_DailyLossBreaker ==
    [][risk_manager.daily_pnl <= -risk_manager.cfg.daily_loss_limit =>
          /\ DOMAIN risk_manager'.positions
                \subseteq DOMAIN risk_manager.positions
          /\ risk_manager'.daily_trades <= risk_manager.daily_trades]_vars

(***************************************************************************)
(* C8  daily_trades counts buy fills                                       *)
(***************************************************************************)
\* C8: daily_trades increases by exactly 1 in a step that fills a buy and is
\* left unchanged by every other step (a sell fill included).
C8_TradeCountPerBuyFill ==
    [][risk_manager'.daily_trades =
          risk_manager.daily_trades + (IF BuyFill THEN 1 ELSE 0)]_vars

\* A buy and then its sell were filled: one trade is counted.
C8_Witness ==
    /\ risk_manager.daily_trades = 1
    /\ risk_manager.positions = << >>
    /\ Len(trade_history) = 2
    /\ trade_history[1].order_type = "buy"
    /\ trade_history[2].order_type = "sell"
    /\ trade_history[1].stock_code = trade_history[2].stock_code

(***************************************************************************)
(* C9  calculate_quantity                                                  *)
(***************************************************************************)
\* The quantity a caller got is at least 1 and its amount is within
\* min(max_single_trade_amount, account_balance * max_position_size_ratio).
QuantityWithinCap(rm, price, quantity) ==
    /\ quantity >= 1
    /\ price * quantity * RatioDen
          <= Min(rm.cfg.max_single_trade_amount * RatioDen,
                 rm.account_balance * rm.cfg.max_position_size_ratio)

\* C9 (as stated): for every price > 0, balance and limits, calculate_quantity
\* returns a quantity >= 1 with price * quantity <= min(max_single_trade_amount,
\* account_balance * max_position_size_ratio).
C9_QuantityWithinCap ==
    handler.kind = "quantity" =>
       QuantityWithinCap(risk_manager, handler.price, handler.quantity)

\* C9 (amended): calculate_quantity returns a quantity >= 1; when the price
\* is within min(max_single_trade_amount, account_balance *
\* max_position_size_ratio) the amount price * quantity is within it too,
\* and one more share would pass it; when the price is above it, the quantity
\* is 1 (and the amount is above it).
C9_QuantityClamped ==
    handler.kind = "quantity" =>
       LET cap == Min(risk_manager.cfg.max_single_trade_amount * RatioDen,
                      risk_manager.account_balance
                         * risk_manager.cfg.max_position_size_ratio)
           p   == handler.price
           q   == handler.quantity
       IN  /\ q >= 1
           /\ IF p * RatioDen <= cap
              THEN /\ p * q * RatioDen <= cap
                   /\ p * (q + 1) * RatioDen > cap
              ELSE q = 1

\* The example of the specification: balance 100000, ratio 0.1, limit
\* 1000000, price 50000: the quantity is clamped to 1.
C9_Witness ==
    /\ handler.kind = "quantity"
    /\ risk_manager.account_balance = 100000
    /\ risk_manager.cfg.max_position_size_ratio = 100
    /\ risk_manager.cfg.max_single_trade_amount = 1000000
    /\ handler.price = 50000
    /\ handler.quantity = 1

(***************************************************************************)
(* C10  update_position on a sell                                          *)
(***************************************************************************)
\* What a filled sell by the caller r (r2 after the step) of a held
\* stock_code does to the ledger.
SellApplied(r, r2) ==
    LET c == r.stock_code
    IN  c \in DOMAIN risk_manager.positions =>
           LET pnl == (r.price - risk_manager.positions[c].buy_price)
                         * r.quantity
           IN  /\ c \notin DOMAIN risk_manager'.positions
               /\ c \notin DOMAIN risk_manager'.last_prices
               /\ risk_manager'.daily_pnl = risk_manager.daily_pnl + pnl
               /\ r2.pnl = pnl
               /\ \A d \in DOMAIN risk_manager.positions \ {c} :
                     /\ d \in DOMAIN risk_manager'.positions
                     /\ risk_manager'.positions[d] = risk_manager.positions[d]

\* C10: update_position(stock_code, price, quantity, "sell") on a held
\* stock_code removes the position and the last_prices entry, adds
\* (price - buy_price) * quantity to daily_pnl and returns that pnl.
C10_SellUpdatesLedger ==
    [][/\ HandlerSellFill => SellApplied(handler, handler')
       /\ \A k \in StopIds :
             LiqSellFill(k) => SellApplied(liq[k], liq'[k])]_vars

\* A sell at a loss was filled: the position is gone and daily_pnl holds
\* the pnl handed back.
C10_Witness ==
    /\ handler.signal = "sell"
    /\ handler.result
    /\ handler.pnl < 0
    /\ risk_manager.daily_pnl = handler.pnl
    /\ handler.stock_code \notin DOMAIN risk_manager.positions
    /\ handler.stock_code \notin DOMAIN risk_manager.last_prices

(***************************************************************************)
(* check_stop_loss_take_profit over ledgers with and without a position    *)
(***************************************************************************)
StopLossBuyPrices == {100, 1000}
StopLossRatios    == {20, 30}                \* 0.02, 0.03
TakeProfitRatios  == {50, 100}               \* 0.05, 0.1
StopLossPrices    == {96, 97, 98, 99, 105, 106, 110, 111,
                      970, 971, 980, 981, 1049, 1050, 1099, 1100}

\* The variables a specification of one function leaves as they are after
\* initialize_trading_system.
RestFresh ==
    /\ strategy = [ price_history      |-> << >>,
                    short_ma_period    |-> InitShortPeriod,
                    long_ma_period     |-> InitLongPeriod,
                    min_history_length |-> InitLongPeriod ]
    /\ signals = << >>
    /\ pending_signals = {}
    /\ is_running = FALSE
    /\ engine_running = FALSE
    /\ clock = 0
    /\ engine = [e \in EngineIds |-> IdleEngine]
    /\ handler = FreeHandler
    /\ liq = [k \in StopIds |-> IdleLiq]
    /\ trade_history = << >>
    /\ order_calls = [approve |-> [i \in SignalIds |-> 0], manual |-> 0,
                      liquidate |-> 0]
    /\ broadcasts = [pending |-> {}, resolved |-> [i \in SignalIds |-> << >>]]
    /\ resolutions = [i \in SignalIds |-> << >>]
    /\ budget = [ticks |-> 0, orders |-> 0, reloads |-> 0, stops |-> 0,
                 clock |-> 0]

\* A ledger with the limits sl and tp, and with a position of "005930"
\* bought at buy_price when buy_price > 0.
LedgerHolding(buy_price, sl, tp) ==
    [ account_balance |-> AccountBalance,
      cfg             |-> [DefaultRisk EXCEPT !.stop_loss_ratio = sl,
                                              !.take_profit_ratio = tp],
      daily_trades    |-> IF buy_price > 0 THEN 1 ELSE 0,
      daily_pnl       |-> 0,
      positions       |-> IF buy_price > 0
                          THEN [c \in {"005930"} |->
                                  [buy_price |-> buy_price,
                                   quantity  |-> CalculateQuantity(
                                       [account_balance |-> AccountBalance,
                                        cfg |-> DefaultRisk], buy_price),
                                   buy_time |-> 0]]
                          ELSE << >>,
      position_order  |-> IF buy_price > 0 THEN << "005930" >> ELSE << >>,
      last_prices     |-> IF buy_price > 0
                          THEN [c \in {"005930"} |-> buy_price]
                          ELSE << >> ]

InitStopLoss ==
    /\ \E b \in StopLossBuyPrices \cup {0}, sl \in StopLossRatios,
          tp \in TakeProfitRatios :
          risk_manager = LedgerHolding(b, sl, tp)
    /\ RestFresh

\* The ingestion thread evaluates
\* risk_manager.check_stop_loss_take_profit(stock_code, price) and keeps what
\* it returned.
StopLossCall(e, stock_code, price) ==
    /\ engine' = [engine EXCEPT ![e] =
                    [IdleEngine EXCEPT
                       !.pc = "stop_loss", !.stock_code = stock_code,
                       !.price = price,
                       !.signal = IF CheckStopLossTakeProfit(risk_manager,
                                                             stock_code, price)
                                  THEN "sell" ELSE "none"]]
    /\ UNCHANGED << risk_manager, strategy, signals, pending_signals,
                    is_running, engine_running, clock, handler, liq,
                    trade_history, order_calls, broadcasts, resolutions,
                    budget >>

NextStopLoss ==
    \E e \in EngineIds, c \in Symbols, p \in StopLossPrices :
       StopLossCall(e, c, p)

SpecStopLoss == InitStopLoss /\ [][NextStopLoss]_vars

(***************************************************************************)
(* C11  check_stop_loss_take_profit                                        *)
(***************************************************************************)
\* C11: check_stop_loss_take_profit(stock_code, price) returns sell exactly
\* when stock_code has a position and (price - buy_price) / buy_price is
\* <= -stop_loss_ratio or >= take_profit_ratio (both bounds included), and
\* none otherwise.
C11_StopLossTakeProfit ==
    \A e \in EngineIds :
       engine[e].pc = "stop_loss" =>
          LET c == engine[e].stock_code
              p == engine[e].price
          IN  engine[e].signal =
                 IF /\ c \in DOMAIN risk_manager.positions
                    /\ LET b == risk_manager.positions[c].buy_price
                       IN  \/ (p - b) * RatioDen
                                <= -risk_manager.cfg.stop_loss_ratio * b
                           \/ (p - b) * RatioDen
                                >= risk_manager.cfg.take_profit_ratio * b
                 THEN "sell" ELSE "none"

\* The example of the claim, at the bound: bought at 1000 with
\* stop_loss_ratio 0.02, the price 980 gives sell.
C11_Witness ==
    \E e \in EngineIds :
       /\ engine[e].pc = "stop_loss"
       /\ engine[e].stock_code \in DOMAIN risk_manager.positions
       /\ risk_manager.positions[engine[e].stock_code].buy_price = 1000
       /\ risk_manager.cfg.stop_loss_ratio = 20
       /\ engine[e].price = 980
       /\ engine[e].signal = "sell"

(***************************************************************************)
(* The ingestion loop after a reconfiguration to short periods: the        *)
(* strategy was set to WarmStrategy, the system started and the thread     *)
(* booted; ticks and manual buys follow.                                   *)
(***************************************************************************)
WarmTicks    == 4
WarmOrders   == 1
WarmStrategy == <<2, 3>>
TickPrices   == {96, 100, 106}

TickRun == [ticks |-> WarmTicks, orders |-> WarmOrders, reloads |-> 0,
            stops |-> 0, clock |-> 0]

InitTicks ==
    /\ risk_manager = [ account_balance |-> AccountBalance,
                        cfg             |-> DefaultRisk,
                        daily_trades    |-> 0,
                        daily_pnl       |-> 0,
                        positions       |-> << >>,
                        position_order  |-> << >>,
                        last_prices     |-> << >> ]
    /\ strategy = [ price_history      |-> << >>,
                    short_ma_period    |-> WarmStrategy[1],
                    long_ma_period     |-> WarmStrategy[2],
                    min_history_length |-> WarmStrategy[2] ]
    /\ signals = << >>
    /\ pending_signals = {}
    /\ is_running = TRUE
    /\ engine_running = TRUE
    /\ clock = 0
    /\ engine = [e \in EngineIds |-> [IdleEngine EXCEPT !.pc = "idle"]]
    /\ handler = Respond("started")
    /\ liq = [k \in StopIds |-> IdleLiq]
    /\ trade_history = << >>
    /\ order_calls = [approve |-> [i \in SignalIds |-> 0], manual |-> 0,
                      liquidate |-> 0]
    /\ broadcasts = [pending |-> {}, resolved |-> [i \in SignalIds |-> << >>]]
    /\ resolutions = [i \in SignalIds |-> << >>]
    /\ budget = TickRun

NextTicks ==
    \/ \E e \in EngineIds, c \in Symbols, p \in TickPrices :
          TickIngest(e, c, p)
    \/ \E e \in EngineIds : TickEvaluate(e)
    \/ \E e \in EngineIds : TickCreate(e)
    \/ \E e \in EngineIds : TickBroadcast(e)
    \/ \E c \in Symbols, q \in OrderQuantities, p \in OrderPrices :
          ManualOrder(c, "buy", q, p)
    \/ \E ok \in BOOLEAN : ManualOrderReturns(ok)

SpecTicks == InitTicks /\ [][NextTicks]_vars

(***************************************************************************)
(* C12  The crossover signal                                               *)
(***************************************************************************)
Held(stock_code) == stock_code \in DOMAIN risk_manager.positions

\* The signal the specification derives from a history h (the tick's price
\* last), the periods and the position state.
DerivedSignal(h, sp, lp, price, held) ==
    LET ss == SumSeq(LastN(h, sp))
        ls == SumSeq(LastN(h, lp))
    IN  IF ss * lp > ls * sp /\ price * sp > ss /\ ~held THEN "buy"
        ELSE IF ss * lp < ls * sp /\ held THEN "sell"
        ELSE "none"

\* The row evaluated by e leaves the signal d: none built for "none",
\* one signal dict of that direction otherwise.
RowLeaves(e, d) ==
    IF d = "none"
    THEN signals' = signals
    ELSE /\ Len(signals') = Len(signals) + 1
         /\ signals'[Len(signals')].signal = d
         /\ signals'[Len(signals')].stock_code = engine[e].stock_code

\* C12: with a history of at least long_ma_period prices the crossover
\* signal of a row is buy iff short MA > long MA, price > short MA and no
\* position is held, sell iff short MA < long MA and a position is held,
\* none otherwise; a history of equal prices gives none; and get_signal,
\* called with the tick on the history before it, returns the same
\* decision and leaves the same history as the inline computation.
C12_CrossoverSignal ==
    [][ /\ \A e \in EngineIds, c \in Symbols, p \in TickPrices :
             TickIngest(e, c, p) =>
                LET g == GetSignal(strategy, c, p, Held(c))
                IN  /\ g.strategy = strategy'
                    /\ g.signal = CrossoverSignal(strategy', c, p, Held(c))
        /\ \A e \in EngineIds :
             LET c == engine[e].stock_code
                 h == strategy.price_history[c]
             IN  ( /\ TickEvaluate(e)
                   /\ ~CheckStopLossTakeProfit(risk_manager, c,
                                               engine[e].price)
                   /\ Len(h) >= strategy.long_ma_period )
                 => /\ RowLeaves(e, DerivedSignal(h, strategy.short_ma_period,
                                                  strategy.long_ma_period,
                                                  engine[e].price, Held(c)))
                    /\ (\A i \in 1 .. Len(h) : h[i] = h[1])
                          => signals' = signals
      ]_vars

\* A crossover buy and nothing else was derived for a symbol whose last
\* three prices rose.
C12_Witness ==
    \E i \in 1 .. Len(signals) :
       /\ signals[i].reason = "cross"
       /\ signals[i].signal = "buy"
       /\ Len(strategy.price_history[signals[i].stock_code])
             >= strategy.long_ma_period

(***************************************************************************)
(* C13  Stop-loss/take-profit before the crossover                         *)
(***************************************************************************)
\* C13: a row for which check_stop_loss_take_profit fires builds exactly
\* one signal, a sell with the stop-loss/take-profit reason, whatever the
\* crossover would give; every row builds at most one signal, and its
\* create step puts exactly that one signal into the table.
C13_StopLossFirst ==
    [][ \A e \in EngineIds :
          /\ TickEvaluate(e) =>
               /\ Len(signals') <= Len(signals) + 1
               /\ SubSeq(signals', 1, Len(signals)) = signals
               /\ CheckStopLossTakeProfit(risk_manager, engine[e].stock_code,
                                          engine[e].price)
                    => /\ Len(signals') = Len(signals) + 1
                       /\ signals'[Len(signals')].signal = "sell"
                       /\ signals'[Len(signals')].reason = "stop"
                       /\ signals'[Len(signals')].stock_code
                             = engine[e].stock_code
          /\ TickCreate(e) =>
               /\ pending_signals' \ pending_signals = {engine[e].sig}
               /\ signals' = signals
      ]_vars

\* A stop-loss sell was created by a row for which the crossover gives a
\* sell as well, and it is the only signal of that row.
C13_Witness ==
    \E e \in EngineIds :
       /\ engine[e].pc = "bcast"
       /\ engine[e].reason = "stop"
       /\ engine[e].sig \in pending_signals
       /\ Len(signals) = engine[e].sig
       /\ CrossoverSignal(strategy, engine[e].stock_code, engine[e].price,
                          Held(engine[e].stock_code)) = "sell"

(***************************************************************************)
(* C14  approve_signal on a pending, unexpired entry                       *)
(***************************************************************************)
\* approve_signal passed its three tests for signal_id and is inside or
\* past safe_execute_order.
Approving(h) == h.kind = "approve" /\ h.pc \in {"exec_order", "finish"}

\* C14 as stated: an approve that passed the tests calls order_cash at most
\* once for its id; when it returns, the id is out of the table, a
\* successful order has left the signal "approved" and one more trade
\* record, and a failed one has left it "failed", with no trade record and
\* the ledger as it was.
C14_ApproveResolves ==
    [][ /\ \A id \in SignalIds :
             ApproveCheck(id) /\ Approving(handler') =>
                /\ order_calls'.approve[id] <= 1
                /\ risk_manager' = risk_manager
        /\ ApproveOrderReturns(FALSE) => risk_manager' = risk_manager
        /\ ApproveResolve =>
             LET id == handler.signal_id
             IN  /\ id \notin pending_signals'
                 /\ order_calls.approve[id] <= 1
                 /\ IF handler.result
                    THEN /\ order_calls.approve[id] = 1
                         /\ signals'[id].status = "approved"
                         /\ Len(trade_history') = Len(trade_history) + 1
                    ELSE /\ signals'[id].status = "failed"
                         /\ trade_history' = trade_history
      ]_vars

(***************************************************************************)
(* C15  approve_signal on an absent or resolved entry                      *)
(***************************************************************************)
\* The step leaves the table, the signals, the ledger, the trade history
\* and the count of order_cash calls as they were.
NothingDone ==
    /\ pending_signals' = pending_signals
    /\ signals' = signals
    /\ risk_manager' = risk_manager
    /\ trade_history' = trade_history
    /\ order_calls' = order_calls

\* C15: approve of an id that is not in the table answers "not found",
\* approve of an entry whose status is not pending answers "already
\* resolved", and neither calls the order executor nor changes the table
\* or the ledger.
C15_AbsentOrResolved ==
    [][ \A id \in SignalIds :
          ApproveCheck(id) =>
             /\ id \notin pending_signals =>
                  /\ handler'.response = "not_found"
                  /\ handler'.pc = "free"
                  /\ NothingDone
             /\ (id \in pending_signals /\ signals[id].status # "pending") =>
                  /\ handler'.response = "already_resolved"
                  /\ handler'.pc = "free"
                  /\ NothingDone
      ]_vars

\* An entry marked expired lingers in the table and an approve of it was
\* answered "already resolved".
C15_Witness ==
    /\ handler.response = "already_resolved"
    /\ \E id \in pending_signals : signals[id].status = "expired"

(***************************************************************************)
(* The pending table with two held symbols: both were bought by manual     *)
(* orders at the order price, the system started and the thread booted;    *)
(* ticks, approvals, rejections and listings follow.                       *)
(***************************************************************************)
ListingTicks == 2

ListingRun == [ticks |-> ListingTicks, orders |-> 0, reloads |-> 0,
               stops |-> 0, clock |-> MaxClock]

\* The ledger after the buys of the symbols of codes, in that order, each
\* at price with the quantity calculate_quantity gives.
RECURSIVE LedgerAfterBuys(_, _, _)
LedgerAfterBuys(rm, codes, price) ==
    IF codes = << >> THEN rm
    ELSE LedgerAfterBuys(
            [UpdatePosition(rm, Head(codes), price,
                            CalculateQuantity(rm, price), "buy", 0)
                EXCEPT !.position_order = Append(@, Head(codes))],
            Tail(codes), price)

InitListing ==
    /\ risk_manager =
         LedgerAfterBuys([ account_balance |-> AccountBalance,
                           cfg             |-> DefaultRisk,
                           daily_trades    |-> 0,
                           daily_pnl       |-> 0,
                           positions       |-> << >>,
                           position_order  |-> << >>,
                           last_prices     |-> << >> ],
                         << "005930", "000660" >>, 100)
    /\ strategy = [ price_history      |-> << >>,
                    short_ma_period    |-> InitShortPeriod,
                    long_ma_period     |-> InitLongPeriod,
                    min_history_length |-> InitLongPeriod ]
    /\ signals = << >>
    /\ pending_signals = {}
    /\ is_running = TRUE
    /\ engine_running = TRUE
    /\ clock = 0
    /\ engine = [e \in EngineIds |-> [IdleEngine EXCEPT !.pc = "idle"]]
    /\ handler = Respond("started")
    /\ liq = [k \in StopIds |-> IdleLiq]
    /\ trade_history =
         AddTrade(AddTrade(<< >>, "005930", "buy", 1, 100),
                  "000660", "buy", 1, 100)
    /\ order_calls = [approve |-> [i \in SignalIds |-> 0], manual |-> 2,
                      liquidate |-> 0]
    /\ broadcasts = [pending |-> {}, resolved |-> [i \in SignalIds |-> << >>]]
    /\ resolutions = [i \in SignalIds |-> << >>]
    /\ budget = ListingRun

NextListing ==
    \/ AdvanceClock
    \/ \E e \in EngineIds, c \in Symbols, p \in Prices : TickIngest(e, c, p)
    \/ \E e \in EngineIds : TickEvaluate(e)
    \/ \E e \in EngineIds : TickCreate(e)
    \/ \E e \in EngineIds : TickBroadcast(e)
    \/ \E id \in SignalIds : ApproveCheck(id)
    \/ \E ok \in BOOLEAN : ApproveOrderReturns(ok)
    \/ ApproveResolve
    \/ \E id \in SignalIds : RejectSignal(id)
    \/ GetPendingSignals

SpecListing == InitListing /\ [][NextListing]_vars

(***************************************************************************)
(* C16  get_pending_signals                                                *)
(***************************************************************************)
\* C16: the list get_pending_signals returns holds exactly the entries of
\* the table with status pending and expires_at >= now, each once, in
\* descending created_at; it holds no expired or resolved entry; and none
\* of its entries is refused as expired by approve_signal at the same time.
C16_ListPending ==
    [][ GetPendingSignals =>
          LET l == handler'.listing
          IN  /\ { l[i] : i \in 1 .. Len(l) }
                   = { k \in pending_signals :
                         /\ signals[k].status = "pending"
                         /\ signals[k].expires_at >= clock }
              /\ \A i, j \in 1 .. Len(l) :
                    /\ i < j => signals[l[i]].created_at
                                   >= signals[l[j]].created_at
                    /\ i # j => l[i] # l[j]
              /\ \A i \in 1 .. Len(l) : ~Expired(signals[l[i]], clock)
      ]_vars

\* A listing taken at the very second its newest entry expires, while an
\* older entry marked expired lingers in the table: the newest is listed,
\* the lingering one is not.
C16_Witness ==
    /\ handler.response = "listed"
    /\ Len(handler.listing) = 1
    /\ handler.listing[1] \in pending_signals
    /\ signals[handler.listing[1]].expires_at = clock
    /\ \E k \in pending_signals : signals[k].status = "expired"

(***************************************************************************)
(* The price history of one symbol under the constructor's periods, with   *)
(* a reconfiguration at any moment: the system started and the thread      *)
(* booted; ticks of the symbol and update_strategy_config follow.          *)
(***************************************************************************)
HistoryTicks   == 11
HistoryReloads == 1
HistorySymbols == {"005930"}

HistoryRun == [ticks |-> HistoryTicks, orders |-> 0,
               reloads |-> HistoryReloads, stops |-> 0, clock |-> 0]

InitHistory ==
    /\ risk_manager = [ account_balance |-> AccountBalance,
                        cfg             |-> DefaultRisk,
                        daily_trades    |-> 0,
                        daily_pnl       |-> 0,
                        positions       |-> << >>,
                        position_order  |-> << >>,
                        last_prices     |-> << >> ]
    /\ strategy = [ price_history      |-> << >>,
                    short_ma_period    |-> InitShortPeriod,
                    long_ma_period     |-> InitLongPeriod,
                    min_history_length |-> InitLongPeriod ]
    /\ signals = << >>
    /\ pending_signals = {}
    /\ is_running = TRUE
    /\ engine_running = TRUE
    /\ clock = 0
    /\ engine = [e \in EngineIds |-> [IdleEngine EXCEPT !.pc = "idle"]]
    /\ handler = Respond("started")
    /\ liq = [k \in StopIds |-> IdleLiq]
    /\ trade_history = << >>
    /\ order_calls = [approve |-> [i \in SignalIds |-> 0], manual |-> 0,
                      liquidate |-> 0]
    /\ broadcasts = [pending |-> {}, resolved |-> [i \in SignalIds |-> << >>]]
    /\ resolutions = [i \in SignalIds |-> << >>]
    /\ budget = HistoryRun

NextHistory ==
    \/ \E e \in EngineIds, c \in HistorySymbols, p \in Prices :
          TickIngest(e, c, p)
    \/ \E e \in EngineIds : TickEvaluate(e)
    \/ \E e \in EngineIds : TickCreate(e)
    \/ \E e \in EngineIds : TickBroadcast(e)
    \/ \E cfg \in StrategyConfigs : UpdateStrategyConfig(cfg)
    \/ StrategySetLong
    \/ StrategySetMinHistory

SpecHistory == InitHistory /\ [][NextHistory]_vars

(***************************************************************************)
(* C17  The bound of the price history                                     *)
(***************************************************************************)
\* C17 as stated: in every state the history of every symbol holds at most
\* 3 x long_ma_period prices for the current long_ma_period, also between
\* a reconfiguration that lowers long_ma_period and the next tick.
C17_HistoryBounded ==
    \A c \in DOMAIN strategy.price_history :
       Len(strategy.price_history[c])
          <= HistoryFactor * strategy.long_ma_period

(***************************************************************************)
(* update_strategy_config called again and again on a fresh system, with   *)
(* periods on both sides of each test of its validation                    *)
(***************************************************************************)
ReconfigureCalls  == 3
ReconfigureShorts == 0 .. 4
ReconfigureLongs  == 1 .. 5

ReconfigureInputs ==
    { <<sp, lp>> : sp \in ReconfigureShorts, lp \in ReconfigureLongs }

ReconfigureRun == [ticks |-> 0, orders |-> 0, reloads |-> ReconfigureCalls,
                   stops |-> 0, clock |-> 0]

InitReconfigure ==
    /\ risk_manager = [ account_balance |-> AccountBalance,
                        cfg             |-> DefaultRisk,
                        daily_trades    |-> 0,
                        daily_pnl       |-> 0,
                        positions       |-> << >>,
                        position_order  |-> << >>,
                        last_prices     |-> << >> ]
    /\ strategy = [ price_history      |-> << >>,
                    short_ma_period    |-> InitShortPeriod,
                    long_ma_period     |-> InitLongPeriod,
                    min_history_length |-> InitLongPeriod ]
    /\ signals = << >>
    /\ pending_signals = {}
    /\ is_running = FALSE
    /\ engine_running = FALSE
    /\ clock = 0
    /\ engine = [e \in EngineIds |-> IdleEngine]
    /\ handler = FreeHandler
    /\ liq = [k \in StopIds |-> IdleLiq]
    /\ trade_history = << >>
    /\ order_calls = [approve |-> [i \in SignalIds |-> 0], manual |-> 0,
                      liquidate |-> 0]
    /\ broadcasts = [pending |-> {}, resolved |-> [i \in SignalIds |-> << >>]]
    /\ resolutions = [i \in SignalIds |-> << >>]
    /\ budget = ReconfigureRun

NextReconfigure ==
    \/ \E cfg \in ReconfigureInputs : UpdateStrategyConfig(cfg)
    \/ StrategySetLong
    \/ StrategySetMinHistory

SpecReconfigure == InitReconfigure /\ [][NextReconfigure]_vars

(***************************************************************************)
(* C18  The validation of update_strategy_config                           *)
(***************************************************************************)
\* The periods the specification accepts.
Acceptable(cfg) == cfg[1] >= 2 /\ cfg[2] >= 3 /\ cfg[1] < cfg[2]

\* C18: update_strategy_config changes the strategy only for periods with
\* short >= 2, long >= 3 and short < long; a rejected call leaves the
\* three fields as they were; an accepted call has set them to short, long
\* and long when it returns; and whenever a call has returned the strategy
\* satisfies 2 <= short < long and min_history_length = long.
C18_ReconfigureValidated ==
    [][ /\ \A cfg \in ReconfigureInputs \cup StrategyConfigs :
             UpdateStrategyConfig(cfg) =>
                IF Acceptable(cfg)
                THEN handler'.pc # "free"
                ELSE /\ strategy' = strategy
                     /\ handler'.pc = "free"
                     /\ handler'.response = "invalid"
        /\ StrategySetMinHistory =>
             /\ strategy'.short_ma_period = handler.cfg[1]
             /\ strategy'.long_ma_period = handler.cfg[2]
             /\ strategy'.min_history_length = handler.cfg[2]
             /\ handler'.response = "strategy_updated"
        /\ handler'.pc = "free" =>
             /\ 2 <= strategy'.short_ma_period
             /\ strategy'.short_ma_period < strategy'.long_ma_period
             /\ strategy'.min_history_length = strategy'.long_ma_period
      ]_vars

\* Periods were accepted, then other periods were rejected, and the
\* strategy still holds accepted ones.
C18_Witness ==
    /\ handler.pc = "free"
    /\ handler.response = "invalid"
    /\ budget.reloads <= ReconfigureCalls - 2
    /\ strategy.short_ma_period # InitShortPeriod
    /\ strategy.min_history_length = strategy.long_ma_period

(***************************************************************************)
(* C19  update_strategy_config while the ingestion thread runs             *)
(***************************************************************************)
\* C19 as stated: no row is taken in or evaluated by on_result while the
\* strategy holds a partially assigned configuration, that is with
\* short_ma_period >= long_ma_period or min_history_length different from
\* long_ma_period.
C19_NoPartialConfigRead ==
    [][ \A e \in EngineIds :
          ( \/ TickEvaluate(e)
            \/ \E c \in Symbols, p \in Prices : TickIngest(e, c, p) )
          => /\ strategy.short_ma_period < strategy.long_ma_period
             /\ strategy.min_history_length = strategy.long_ma_period
      ]_vars

(***************************************************************************)
(* update_risk_config called on a fresh system with values on both sides   *)
(* of the range of each parameter                                          *)
(***************************************************************************)
RiskReloads == 2

RiskAmounts     == {-1, 0, 1000000}          \* max_single_trade_amount
RiskStopLosses  == {-20, 20}                 \* -0.02, 0.02
RiskTakeProfits == {-50, 50}                 \* -0.05, 0.05
RiskLossLimits  == {-1, 500000}              \* daily_loss_limit
RiskTradeCounts == {-1, 5}                   \* max_trades_per_day
RiskSizeRatios  == {0, 100, 1500}            \* 0, 0.1, 1.5

RiskInputs ==
    [ max_position_size_ratio : RiskSizeRatios,
      max_single_trade_amount : RiskAmounts,
      stop_loss_ratio         : RiskStopLosses,
      take_profit_ratio       : RiskTakeProfits,
      daily_loss_limit        : RiskLossLimits,
      max_trades_per_day      : RiskTradeCounts ]

RiskConfigRun == [ticks |-> 0, orders |-> 0, reloads |-> RiskReloads,
                  stops |-> 0, clock |-> 0]

InitRiskConfig ==
    /\ risk_manager = [ account_balance |-> AccountBalance,
                        cfg             |-> DefaultRisk,
                        daily_trades    |-> 0,
                        daily_pnl       |-> 0,
                        positions       |-> << >>,
                        position_order  |-> << >>,
                        last_prices     |-> << >> ]
    /\ strategy = [ price_history      |-> << >>,
                    short_ma_period    |-> InitShortPeriod,
                    long_ma_period     |-> InitLongPeriod,
                    min_history_length |-> InitLongPeriod ]
    /\ signals = << >>
    /\ pending_signals = {}
    /\ is_running = FALSE
    /\ engine_running = FALSE
    /\ clock = 0
    /\ engine = [e \in EngineIds |-> IdleEngine]
    /\ handler = FreeHandler
    /\ liq = [k \in StopIds |-> IdleLiq]
    /\ trade_history = << >>
    /\ order_calls = [approve |-> [i \in SignalIds |-> 0], manual |-> 0,
                      liquidate |-> 0]
    /\ broadcasts = [pending |-> {}, resolved |-> [i \in SignalIds |-> << >>]]
    /\ resolutions = [i \in SignalIds |-> << >>]
    /\ budget = RiskConfigRun

NextRiskConfig == \E cfg \in RiskInputs : UpdateRiskConfig(cfg)

SpecRiskConfig == InitRiskConfig /\ [][NextRiskConfig]_vars

(***************************************************************************)
(* C20  The validation of update_risk_config                               *)
(***************************************************************************)
\* The values the specification takes for valid.
ValidRisk(cfg) ==
    /\ cfg.max_single_trade_amount > 0
    /\ cfg.stop_loss_ratio >= 0
    /\ cfg.take_profit_ratio >= 0
    /\ cfg.daily_loss_limit >= 0
    /\ cfg.max_trades_per_day >= 0
    /\ cfg.max_position_size_ratio > 0
    /\ cfg.max_position_size_ratio <= RatioDen

\* C20 as stated: update_risk_config with an invalid value (an amount <= 0,
\* a negative ratio, limit or trade count, a position size ratio outside
\* (0, 1]) is rejected and leaves every parameter of the ledger unchanged.
C20_InvalidRiskRejected ==
    [][ \A cfg \in RiskInputs :
          (UpdateRiskConfig(cfg) /\ ~ValidRisk(cfg)) =>
             /\ risk_manager'.cfg = risk_manager.cfg
             /\ handler'.response # "risk_updated"
      ]_vars

(***************************************************************************)
(* C21  The ingestion thread and the handlers' mutations                   *)
(***************************************************************************)
\* A request handler writes a fill into the ledger or assigns a field of
\* the strategy configuration.
HandlerMutation ==
    \/ ApproveOrderReturns(TRUE)
    \/ ManualOrderReturns(TRUE)
    \/ StrategySetLong
    \/ StrategySetMinHistory

\* The ingestion thread e has updated last_prices and the history for a
\* row and has not yet read the position and the periods to evaluate it.
MidRow(e) == engine[e].pc = "evaluate"

\* C21 as stated: the processing of a row, from its price updates to its
\* evaluation, never overlaps with a handler's mutation of the ledger or
\* of the strategy configuration.
C21_TickExcludesMutation ==
    [][ HandlerMutation => \A e \in EngineIds : ~MidRow(e) ]_vars

(***************************************************************************)
(* C22  Who calls the order executor                                       *)
(***************************************************************************)
\* order_cash is in flight for the handler or for a liquidation worker.
OrderInFlight ==
    \/ handler.pc = "exec_order"
    \/ \E k \in StopIds : liq[k].pc = "exec_order"

\* C22: a step that calls order_cash is a step of approve_signal, of
\* execute_manual_order or of stop_system's liquidation, never one of the
\* ingestion thread; and pending_signals_lock is free while an order is in
\* flight: a create that waits for the lock can proceed.
C22_ExecutorCallers ==
    [][ /\ order_calls' # order_calls =>
             /\ engine' = engine
             /\ \/ \E id \in SignalIds :
                      /\ ApproveCheck(id)
                      /\ order_calls'.approve[id] = order_calls.approve[id] + 1
                \/ /\ handler'.kind = "manual"
                   /\ handler'.pc = "exec_order"
                   /\ order_calls'.manual = order_calls.manual + 1
                \/ \E k \in StopIds :
                      /\ LiqResume(k)
                      /\ order_calls'.liquidate = order_calls.liquidate + 1
        /\ engine' # engine => order_calls' = order_calls
        /\ \A e \in EngineIds :
             (OrderInFlight /\ engine[e].pc = "create")
                => ENABLED TickCreate(e)
      ]_vars

\* approve_signal waits for order_cash while the ingestion thread stands
\* before its critical section.
C22_Witness ==
    /\ handler.pc = "exec_order"
    /\ handler.kind = "approve"
    /\ order_calls.approve[handler.signal_id] = 1
    /\ \E e \in EngineIds : engine[e].pc = "create"

(***************************************************************************)
(* C23  stop_system clears the table                                       *)
(***************************************************************************)
\* C23 as stated: while the system is stopped and no stop_system call is
\* still liquidating, the table of pending signals is empty, whatever row
\* the ingestion thread was processing when stop_system was called.
C23_StoppedTableEmpty ==
    (~is_running /\ \A k \in StopIds : liq[k].pc = "idle")
       => pending_signals = {}

(***************************************************************************)
(* stop_system with two held symbols: both were bought by manual orders,   *)
(* the system started and the thread booted; ticks, approvals and          *)
(* stop_system, with and without liquidation, follow.                      *)
(***************************************************************************)
StopTicks == 1

StopRun == [ticks |-> StopTicks, orders |-> 0, reloads |-> 0,
            stops |-> MaxStops, clock |-> 0]

InitStop ==
    /\ risk_manager =
         LedgerAfterBuys([ account_balance |-> AccountBalance,
                           cfg             |-> DefaultRisk,
                           daily_trades    |-> 0,
                           daily_pnl       |-> 0,
                           positions       |-> << >>,
                           position_order  |-> << >>,
                           last_prices     |-> << >> ],
                         << "005930", "000660" >>, 100)
    /\ strategy = [ price_history      |-> << >>,
                    short_ma_period    |-> InitShortPeriod,
                    long_ma_period     |-> InitLongPeriod,
                    min_history_length |-> InitLongPeriod ]
    /\ signals = << >>
    /\ pending_signals = {}
    /\ is_running = TRUE
    /\ engine_running = TRUE
    /\ clock = 0
    /\ engine = [e \in EngineIds |-> [IdleEngine EXCEPT !.pc = "idle"]]
    /\ handler = Respond("started")
    /\ liq = [k \in StopIds |-> IdleLiq]
    /\ trade_history =
         AddTrade(AddTrade(<< >>, "005930", "buy", 1, 100),
                  "000660", "buy", 1, 100)
    /\ order_calls = [approve |-> [i \in SignalIds |-> 0], manual |-> 2,
                      liquidate |-> 0]
    /\ broadcasts = [pending |-> {}, resolved |-> [i \in SignalIds |-> << >>]]
    /\ resolutions = [i \in SignalIds |-> << >>]
    /\ budget = StopRun

NextStop ==
    \/ \E e \in EngineIds, c \in Symbols, p \in Prices : TickIngest(e, c, p)
    \/ \E e \in EngineIds : BatchDropped(e)
    \/ \E e \in EngineIds : TickEvaluate(e)
    \/ \E e \in EngineIds : TickCreate(e)
    \/ \E e \in EngineIds : TickBroadcast(e)
    \/ \E id \in SignalIds : ApproveCheck(id)
    \/ \E ok \in BOOLEAN : ApproveOrderReturns(ok)
    \/ ApproveResolve
    \/ \E liquidate \in BOOLEAN : StopSystem(liquidate)
    \/ \E k \in StopIds : LiqResume(k)
    \/ \E k \in StopIds, ok \in BOOLEAN : LiqOrderReturns(k, ok)

SpecStop == InitStop /\ [][NextStop]_vars

ThreadIds == {1, 2}

ThreadTicks == 2

ThreadRun == [ticks |-> ThreadTicks, orders |-> 0, reloads |-> 0,
              stops |-> MaxStops, clock |-> 0]

InitThreads ==
    /\ risk_manager = [ account_balance |-> AccountBalance,
                        cfg             |-> DefaultRisk,
                        daily_trades    |-> 0,
                        daily_pnl       |-> 0,
                        positions       |-> << >>,
                        position_order  |-> << >>,
                        last_prices     |-> << >> ]
    /\ strategy = [ price_history      |-> << >>,
                    short_ma_period    |-> InitShortPeriod,
                    long_ma_period     |-> InitLongPeriod,
                    min_history_length |-> InitLongPeriod ]
    /\ signals = << >>
    /\ pending_signals = {}
    /\ is_running = FALSE
    /\ engine_running = FALSE
    /\ clock = 0
    /\ engine = [e \in ThreadIds |-> IdleEngine]
    /\ handler = FreeHandler
    /\ liq = [k \in StopIds |-> IdleLiq]
    /\ trade_history = << >>
    /\ order_calls = [approve |-> [i \in SignalIds |-> 0], manual |-> 0,
                      liquidate |-> 0]
    /\ broadcasts = [pending |-> {}, resolved |-> [i \in SignalIds |-> << >>]]
    /\ resolutions = [i \in SignalIds |-> << >>]
    /\ budget = ThreadRun

NextThreads ==
    \/ StartSystem
    \/ StopSystem(FALSE)
    \/ \E e \in ThreadIds : EngineBoot(e)
    \/ \E e \in ThreadIds : BatchDropped(e)
    \/ \E e \in ThreadIds, c \in Symbols, p \in Prices : TickIngest(e, c, p)
    \/ \E e \in ThreadIds : TickEvaluate(e)

SpecThreads == InitThreads /\ [][NextThreads]_vars

\* The ingestion threads that exist: started and not ended.
AliveThreads == { e \in DOMAIN engine : engine[e].pc # "unborn" }

\* C25: across any sequence of start and stop requests at most one
\* ingestion thread is alive (a start issued while a thread exists or is
\* still starting spawns none), so no two threads are ever in the middle of
\* a row of the same symbol, and a row appends its price to a history that
\* no other thread has a row in progress on.
C25_OneIngestionThread ==
    /\ Cardinality(AliveThreads) <= 1
    /\ \A e, f \in DOMAIN engine :
         (e # f /\ MidRow(e) /\ MidRow(f))
            => engine[e].stock_code # engine[f].stock_code


\* The ids a signal_pending (resp. signal_resolved) broadcast is emitted for
\* in a step.
PendingEmitted == { i \in SignalIds : /\ i \in broadcasts'.pending
                                      /\ i \notin broadcasts.pending }

ResolvedEmitted == { i \in SignalIds :
                        Len(broadcasts'.resolved[i])
                            > Len(broadcasts.resolved[i]) }

\* C26: a signal_pending broadcast for an id is emitted only by the thread
\* that has inserted the id in the table (the insertion is the one step
\* that leads to the broadcast), and a signal_resolved broadcast for an id
\* is emitted only once the id carries the terminal status announced and
\* is out of the table.
C26_NotificationOrder ==
    [][ /\ \A i \in PendingEmitted :
             \E e \in DOMAIN engine : /\ engine[e].pc = "bcast"
                                      /\ engine[e].sig = i
        /\ \A e \in DOMAIN engine :
             (engine'[e].pc = "bcast" /\ engine[e].pc # "bcast")
                => /\ engine[e].pc = "create"
                   /\ engine'[e].sig = engine[e].sig
                   /\ engine[e].sig \in pending_signals'
        /\ \A i \in ResolvedEmitted :
             /\ i \notin pending_signals'
             /\ i \in DOMAIN signals'
             /\ Resolved(signals'[i])
             /\ signals'[i].status
                  = broadcasts'.resolved[i][Len(broadcasts'.resolved[i])]
      ]_vars


(***************************************************************************)
(* Rows as they arrive: the STCK_PRPR field is text, read with float().    *)
(* float() raises for text that is no number; the row's try/except then    *)
(* goes on with the next row.                                              *)
(***************************************************************************)
RowTicks == 4

RawPrices == {"96", "106", "0", "-5", "abc", ""}

\* float(text) for the texts it accepts.
FloatOf == [ raw \in {"96", "106", "0", "-5"} |->
               CASE raw = "96"  -> 96
                 [] raw = "106" -> 106
                 [] raw = "0"   -> 0
                 [] raw = "-5"  -> 0 - 5 ]

\* The rows on_result leaves: float() raised, or current_price <= 0.
SkippedRow(raw) == raw \notin DOMAIN FloatOf \/ FloatOf[raw] <= 0

\* A loop that ends at the first exception (a variant, used to test C27).
TickRowFatal(e, stock_code, raw) ==
    IF raw \in DOMAIN FloatOf
    THEN TickIngest(e, stock_code, FloatOf[raw])
    ELSE /\ engine[e].pc = "idle"
         /\ is_running
         /\ budget.ticks > 0
         /\ budget' = [budget EXCEPT !.ticks = @ - 1]
         /\ engine' = EngineTo(e, "unborn")
         /\ UNCHANGED << risk_manager, strategy, signals, pending_signals,
                         is_running, engine_running, clock, handler, liq,
                         trade_history, order_calls, broadcasts,
                         resolutions >>

\* on_result for a row whose price field is the text raw.
TickRow(e, stock_code, raw) ==
    IF raw \in DOMAIN FloatOf
    THEN TickIngest(e, stock_code, FloatOf[raw])
    ELSE /\ engine[e].pc = "idle"
         /\ is_running
         /\ budget.ticks > 0
         /\ budget' = [budget EXCEPT !.ticks = @ - 1]
         /\ UNCHANGED << risk_manager, strategy, signals, pending_signals,
                         is_running, engine_running, clock, engine, handler,
                         liq, trade_history, order_calls, broadcasts,
                         resolutions >>

RowRun == [ticks |-> RowTicks, orders |-> 0, reloads |-> 0, stops |-> 0,
           clock |-> 0]

InitRows ==
    /\ risk_manager = [ account_balance |-> AccountBalance,
                        cfg             |-> DefaultRisk,
                        daily_trades    |-> 0,
                        daily_pnl       |-> 0,
                        positions       |-> << >>,
                        position_order  |-> << >>,
                        last_prices     |-> << >> ]
    /\ strategy = [ price_history      |-> << >>,
                    short_ma_period    |-> WarmStrategy[1],
                    long_ma_period     |-> WarmStrategy[2],
                    min_history_length |-> WarmStrategy[2] ]
    /\ signals = << >>
    /\ pending_signals = {}
    /\ is_running = TRUE
    /\ engine_running = TRUE
    /\ clock = 0
    /\ engine = [e \in EngineIds |-> [IdleEngine EXCEPT !.pc = "idle"]]
    /\ handler = Respond("started")
    /\ liq = [k \in StopIds |-> IdleLiq]
    /\ trade_history = << >>
    /\ order_calls = [approve |-> [i \in SignalIds |-> 0], manual |-> 0,
                      liquidate |-> 0]
    /\ broadcasts = [pending |-> {}, resolved |-> [i \in SignalIds |-> << >>]]
    /\ resolutions = [i \in SignalIds |-> << >>]
    /\ budget = RowRun

NextRows ==
    \/ \E e \in EngineIds, c \in Symbols, raw \in RawPrices :
          TickRow(e, c, raw)
    \/ \E e \in EngineIds : TickEvaluate(e)
    \/ \E e \in EngineIds : TickCreate(e)
    \/ \E e \in EngineIds : TickBroadcast(e)

SpecRows == InitRows /\ [][NextRows]_vars

\* The history of a symbol, empty before its first price.
HistoryOf(st, stock_code) ==
    IF stock_code \in DOMAIN st.price_history
    THEN st.price_history[stock_code] ELSE << >>

\* C27: a row whose price is zero, negative or no number is skipped and
\* leaves lastPrice, the price history and the pending table unchanged;
\* the thread stays in its loop, ready for the next row, and every row
\* with a valid price that follows is taken in (lastPrice set, one price
\* appended).
C27_TickIsolation ==
    [][ \A e \in EngineIds, c \in Symbols, raw \in RawPrices :
          TickRow(e, c, raw) =>
            IF SkippedRow(raw)
            THEN /\ UNCHANGED << risk_manager, strategy, pending_signals,
                                 signals >>
                 /\ engine'[e].pc = "idle"
                 /\ budget'.ticks > 0 =>
                      \A d \in Symbols : ENABLED TickIngest(e, d, 96)
            ELSE /\ risk_manager'.last_prices[c] = FloatOf[raw]
                 /\ HistoryOf(strategy', c)
                      = Append(HistoryOf(strategy, c), FloatOf[raw])
                 /\ engine'[e].pc = "evaluate"
      ]_vars

\* A row was skipped and the rows after it were taken in: all rows of the
\* run have arrived, one of them was skipped, and the last one has just
\* had its signal inserted.
C27_Witness ==
    /\ budget = [RowRun EXCEPT !.ticks = 0]
    /\ HistoryOf(strategy, "005930") = << 96, 96, 106 >>
    /\ HistoryOf(strategy, "000660") = << >>
    /\ \E e \in EngineIds : engine[e].pc = "bcast"
    /\ pending_signals # {}


(***************************************************************************)
(* The console program of quant_trading_safe (its __main__): one thread,   *)
(* create_safe_on_result.on_result for each message, and                    *)
(* safe_execute_order(manual_approval=True), which asks on the terminal    *)
(* before it places the order.  It starts here after ten rows of 005930    *)
(* (nine at 96, one at 100) and the approved buy at 100 they led to.       *)
(***************************************************************************)
ConsoleTicks == 3

ConsoleRun == [ticks |-> ConsoleTicks, orders |-> 0, reloads |-> 0,
               stops |-> 0, clock |-> 0]

ConsoleHistory == << 96, 96, 96, 96, 96, 96, 96, 96, 96, 100 >>

InitConsole ==
    /\ risk_manager =
         LedgerAfterBuys([ account_balance |-> AccountBalance,
                           cfg             |-> DefaultRisk,
                           daily_trades    |-> 0,
                           daily_pnl       |-> 0,
                           positions       |-> << >>,
                           position_order  |-> << >>,
                           last_prices     |-> << >> ],
                         << "005930" >>, 100)
    /\ strategy = [ price_history      |-> [c \in {"005930"} |-> ConsoleHistory],
                    short_ma_period    |-> InitShortPeriod,
                    long_ma_period     |-> InitLongPeriod,
                    min_history_length |-> InitLongPeriod ]
    /\ signals = << >>
    /\ pending_signals = {}
    /\ is_running = FALSE
    /\ engine_running = FALSE
    /\ clock = 0
    /\ engine = [e \in EngineIds |-> IdleEngine]
    /\ handler = FreeHandler
    /\ liq = [k \in StopIds |-> IdleLiq]
    /\ trade_history = << >>
    /\ order_calls = [approve |-> [i \in SignalIds |-> 0], manual |-> 0,
                      liquidate |-> 0]
    /\ broadcasts = [pending |-> {}, resolved |-> [i \in SignalIds |-> << >>]]
    /\ resolutions = [i \in SignalIds |-> << >>]
    /\ budget = ConsoleRun

\* safe_execute_order(manual_approval=True) on the ledger rm: the terminal
\* answer (approval) and the result of order_cash (ok) decide the fill.
ConsoleOrder(rm, signal, stock_code, price, approval, ok) ==
    LET r == [FreeHandler EXCEPT !.kind = "manual", !.signal = signal,
                                 !.stock_code = stock_code, !.price = price]
    IN  IF OrderPlaced(rm, r) /\ approval /\ ok
        THEN Filled(rm, stock_code, price, OrderQuantity(rm, r), signal)
        ELSE rm

\* create_safe_on_result.on_result for a message of one row.
ConsoleRow(stock_code, price, approval, ok) ==
    /\ budget.ticks > 0
    /\ budget' = [budget EXCEPT !.ticks = @ - 1]
    /\ IF price = 0
       THEN UNCHANGED << risk_manager, strategy >>
       ELSE LET rm == RiskUpdatePrice(risk_manager, stock_code, price)
            IN  IF CheckStopLossTakeProfit(rm, stock_code, price)
                THEN /\ risk_manager' = ConsoleOrder(rm, "sell", stock_code,
                                                     price, approval, ok)
                     /\ UNCHANGED strategy
                ELSE LET got == GetSignal(strategy, stock_code, price,
                                          stock_code \in DOMAIN rm.positions)
                     IN  /\ strategy' = got.strategy
                         /\ risk_manager' =
                              IF got.signal = "none" THEN rm
                              ELSE ConsoleOrder(rm, got.signal, stock_code,
                                                price, approval, ok)
    /\ UNCHANGED << signals, pending_signals, is_running, engine_running,
                    clock, engine, handler, liq, trade_history, order_calls,
                    broadcasts, resolutions >>

NextConsole ==
    \E c \in Symbols, p \in TickPrices \cup BadPrices,
       approval \in BOOLEAN, ok \in BOOLEAN :
          ConsoleRow(c, p, approval, ok)

SpecConsole == InitConsole /\ [][NextConsole]_vars

CanTradeCounts     == {0, 1, 5}
CanTradePnls       == {0, -400}
CanTradeLossLimits == {400, 500000}
CanTradePrices     == {100, 106}
CanTradeQuantities == {1, 100, 200, 20000}

\* A ledger that holds 005930 (100 shares bought at 100) or not, has seen
\* a price of 005930 or not, and has the trades and the pnl of the day.
CanTradeLedger(trades, pnl, limit, held, seen) ==
    [ account_balance |-> AccountBalance,
      cfg             |-> [DefaultRisk EXCEPT !.daily_loss_limit = limit],
      daily_trades    |-> trades,
      daily_pnl       |-> pnl,
      positions       |-> IF held
                          THEN [c \in {"005930"} |->
                                  [quantity |-> 100, buy_price |-> 100,
                                   buy_time |-> 0]]
                          ELSE << >>,
      position_order  |-> IF held THEN << "005930" >> ELSE << >>,
      last_prices     |-> IF held \/ seen
                          THEN [c \in {"005930"} |-> 100] ELSE << >> ]

InitCanTrade ==
    /\ \E trades \in CanTradeCounts, pnl \in CanTradePnls,
          limit \in CanTradeLossLimits, held \in BOOLEAN, seen \in BOOLEAN :
          /\ (held \/ pnl # 0) => trades >= 1
          /\ risk_manager = CanTradeLedger(trades, pnl, limit, held, seen)
    /\ strategy = [ price_history      |-> << >>,
                    short_ma_period    |-> InitShortPeriod,
                    long_ma_period     |-> InitLongPeriod,
                    min_history_length |-> InitLongPeriod ]
    /\ signals = << >>
    /\ pending_signals = {}
    /\ is_running = FALSE
    /\ engine_running = FALSE
    /\ clock = 0
    /\ engine = [e \in EngineIds |-> IdleEngine]
    /\ handler = FreeHandler
    /\ liq = [k \in StopIds |-> IdleLiq]
    /\ trade_history = << >>
    /\ order_calls = [approve |-> [i \in SignalIds |-> 0], manual |-> 0,
                      liquidate |-> 0]
    /\ broadcasts = [pending |-> {}, resolved |-> [i \in SignalIds |-> << >>]]
    /\ resolutions = [i \in SignalIds |-> << >>]
    /\ budget = [ticks |-> 0, orders |-> 0, reloads |-> 0, stops |-> 0,
                 clock |-> 0]

\* A caller evaluates risk_manager.can_trade(stock_code, price, quantity)
\* and keeps the arguments and the reason returned; can_trade assigns
\* nothing.
CanTradeCall(stock_code, price, quantity) ==
    /\ handler' = [FreeHandler EXCEPT
                     !.kind = "can_trade", !.stock_code = stock_code,
                     !.price = price, !.quantity = quantity,
                     !.result = (CanTrade(risk_manager, stock_code, price,
                                          quantity) = "OK"),
                     !.reason = CanTrade(risk_manager, stock_code, price,
                                         quantity)]
    /\ UNCHANGED << risk_manager, strategy, signals, pending_signals,
                    is_running, engine_running, clock, engine, liq,
                    trade_history, order_calls, broadcasts, resolutions,
                    budget >>

NextCanTrade ==
    \E c \in Symbols, p \in CanTradePrices, q \in CanTradeQuantities :
        CanTradeCall(c, p, q)

SpecCanTrade == InitCanTrade /\ [][NextCanTrade]_vars

\* The six rules in the order of the claim: whether each fails, and the
\* reason each gives.
RuleFails(rm, stock_code, price, quantity) ==
    << TradeCountExceeded(rm), DailyLossExceeded(rm),
       AmountExceeded(rm, price, quantity),
       PositionSizeExceeded(rm, price, quantity),
       AlreadyHeld(rm, stock_code),
       PriceChangeTooSmall(rm, stock_code, price) >>

RuleReasons == << "trade_count", "daily_loss", "amount", "position_size",
                  "already_held", "price_change" >>

\* C29: can_trade returns (true, OK) exactly when none of the six rules
\* fails, and otherwise false with the reason of the first failing rule in
\* the order trade count, daily loss, single-trade amount, position-size
\* ratio, existing position, minimum price change; the ledger is left as
\* it was.
C29_CanTradeOrder ==
    [][ handler'.kind = "can_trade" =>
          LET fails  == RuleFails(risk_manager, handler'.stock_code,
                                  handler'.price, handler'.quantity)
              failed == { i \in 1 .. 6 : fails[i] }
          IN  /\ risk_manager' = risk_manager
              /\ handler'.result <=> failed = {}
              /\ handler'.result <=> handler'.reason = "OK"
              /\ failed # {} =>
                   \E i \in failed :
                      /\ \A j \in failed : i <= j
                      /\ handler'.reason = RuleReasons[i]
      ]_vars

\* can_trade has refused a buy of a held symbol on a day with no trade
\* left, at an amount above both limits and a price that has not moved:
\* rules 1, 3, 4, 5 and 6 fail, and the reason is that of rule 1.
C29_Witness ==
    /\ handler.kind = "can_trade"
    /\ TradeCountExceeded(risk_manager)
    /\ AmountExceeded(risk_manager, handler.price, handler.quantity)
    /\ AlreadyHeld(risk_manager, handler.stock_code)
    /\ PriceChangeTooSmall(risk_manager, handler.stock_code, handler.price)
    /\ ~handler.result
    /\ handler.reason = "trade_count"


(***************************************************************************)
(* update_position called on ledgers that hold the symbol or not           *)
(***************************************************************************)
PositionCalls == 2

PositionRun == [ticks |-> 0, orders |-> PositionCalls, reloads |-> 0,
                stops |-> 0, clock |-> 0]

InitUpdatePosition ==
    /\ \E trades \in CanTradeCounts, pnl \in CanTradePnls,
          held \in BOOLEAN, seen \in BOOLEAN :
          /\ (held \/ pnl # 0) => trades >= 1
          /\ risk_manager = CanTradeLedger(trades, pnl,
                                           DefaultRisk.daily_loss_limit,
                                           held, seen)
    /\ strategy = [ price_history      |-> << >>,
                    short_ma_period    |-> InitShortPeriod,
                    long_ma_period     |-> InitLongPeriod,
                    min_history_length |-> InitLongPeriod ]
    /\ signals = << >>
    /\ pending_signals = {}
    /\ is_running = FALSE
    /\ engine_running = FALSE
    /\ clock = 0
    /\ engine = [e \in EngineIds |-> IdleEngine]
    /\ handler = FreeHandler
    /\ liq = [k \in StopIds |-> IdleLiq]
    /\ trade_history = << >>
    /\ order_calls = [approve |-> [i \in SignalIds |-> 0], manual |-> 0,
                      liquidate |-> 0]
    /\ broadcasts = [pending |-> {}, resolved |-> [i \in SignalIds |-> << >>]]
    /\ resolutions = [i \in SignalIds |-> << >>]
    /\ budget = PositionRun

\* A caller runs risk_manager.update_position(stock_code, price, quantity,
\* action) and keeps the arguments and the pnl returned.
UpdatePositionCall(stock_code, price, quantity, action) ==
    /\ budget.orders > 0
    /\ budget' = [budget EXCEPT !.orders = @ - 1]
    /\ risk_manager' = Filled(risk_manager, stock_code, price, quantity,
                              action)
    /\ handler' = [FreeHandler EXCEPT
                     !.kind = "update_position", !.stock_code = stock_code,
                     !.signal = action, !.price = price,
                     !.quantity = quantity,
                     !.pnl = UpdatePositionResult(risk_manager, stock_code,
                                                  price, quantity, action)]
    /\ UNCHANGED << strategy, signals, pending_signals, is_running,
                    engine_running, clock, engine, liq, trade_history,
                    order_calls, broadcasts, resolutions >>

NextUpdatePosition ==
    \E c \in Symbols, p \in Prices, q \in {1, 100}, a \in {"buy", "sell"} :
        UpdatePositionCall(c, p, q, a)

SpecUpdatePosition == InitUpdatePosition /\ [][NextUpdatePosition]_vars

\* C30: update_position with action sell on a symbol that has no open
\* position changes nothing: positions, the pnl and the trade count of the
\* day and the last prices are as before, and the pnl returned is 0.
C30_SellWithoutPosition ==
    [][ \A c \in Symbols, p \in Prices, q \in {1, 100} :
          (UpdatePositionCall(c, p, q, "sell")
             /\ c \notin DOMAIN risk_manager.positions)
            => /\ risk_manager'.positions = risk_manager.positions
               /\ risk_manager'.daily_pnl = risk_manager.daily_pnl
               /\ risk_manager'.daily_trades = risk_manager.daily_trades
               /\ risk_manager'.last_prices = risk_manager.last_prices
               /\ risk_manager' = risk_manager
               /\ handler'.pnl = 0
      ]_vars

\* A sell of 005930 was run on a ledger that knows its last price and
\* holds no position of it (a sell of a held symbol forgets the price), on
\* a day that has a loss already.
C30_Witness ==
    /\ handler.kind = "update_position"
    /\ handler.signal = "sell"
    /\ handler.stock_code = "005930"
    /\ "005930" \notin DOMAIN risk_manager.positions
    /\ "005930" \in DOMAIN risk_manager.last_prices
    /\ risk_manager.daily_pnl = -400
    /\ handler.pnl = 0


(***************************************************************************)
(* C31  The table right after a create                                     *)
(***************************************************************************)
\* The thread e builds a signal dict in this step (_build_pending_signal).
Builds(e) == TickEvaluate(e) /\ Len(signals') = Len(signals) + 1

RaiseTicks   == 5
RaiseReloads == 1
RaiseConfigs == {<<2, 5>>}

RaiseRun == [ticks |-> RaiseTicks, orders |-> 0, reloads |-> RaiseReloads,
             stops |-> 0, clock |-> 0]

InitRaise ==
    /\ risk_manager =
         LedgerAfterBuys([ account_balance |-> AccountBalance,
                           cfg             |-> DefaultRisk,
                           daily_trades    |-> 0,
                           daily_pnl       |-> 0,
                           positions       |-> << >>,
                           position_order  |-> << >>,
                           last_prices     |-> << >> ],
                         << "000660" >>, 100)
    /\ strategy = [ price_history      |-> << >>,
                    short_ma_period    |-> WarmStrategy[1],
                    long_ma_period     |-> WarmStrategy[2],
                    min_history_length |-> WarmStrategy[2] ]
    /\ signals = << >>
    /\ pending_signals = {}
    /\ is_running = TRUE
    /\ engine_running = TRUE
    /\ clock = 0
    /\ engine = [e \in EngineIds |-> [IdleEngine EXCEPT !.pc = "idle"]]
    /\ handler = Respond("started")
    /\ liq = [k \in StopIds |-> IdleLiq]
    /\ trade_history = AddTrade(<< >>, "000660", "buy", 1, 100)
    /\ order_calls = [approve |-> [i \in SignalIds |-> 0], manual |-> 1,
                      liquidate |-> 0]
    /\ broadcasts = [pending |-> {}, resolved |-> [i \in SignalIds |-> << >>]]
    /\ resolutions = [i \in SignalIds |-> << >>]
    /\ budget = RaiseRun

NextRaise ==
    \/ \E e \in EngineIds, c \in Symbols, p \in Prices : TickIngest(e, c, p)
    \/ \E e \in EngineIds : TickEvaluate(e)
    \/ \E e \in EngineIds : TickCreate(e)
    \/ \E e \in EngineIds : TickBroadcast(e)
    \/ \E cfg \in RaiseConfigs : UpdateStrategyConfig(cfg)
    \/ StrategySetLong
    \/ StrategySetMinHistory

SpecRaise == InitRaise /\ [][NextRaise]_vars

C33_StopCooperative ==
    [][ /\ \A l \in BOOLEAN :
             StopSystem(l) =>
               /\ ~is_running'
               /\ UNCHANGED << engine, engine_running, risk_manager,
                               strategy >>
        /\ \A e \in DOMAIN engine :
             BatchDropped(e) =>
               UNCHANGED << risk_manager, strategy, pending_signals, signals,
                            engine >>
        /\ StartSystem =>
             /\ is_running'
             /\ UNCHANGED << risk_manager, strategy, pending_signals >>
             /\ \A e \in DOMAIN engine :
                  engine[e].pc # "unborn" => engine'[e] = engine[e]
        /\ \A e \in DOMAIN engine :
             (is_running /\ engine[e].pc = "idle" /\ budget.ticks > 0)
                => \A c \in Symbols : ENABLED TickIngest(e, c, 96)
      ]_vars

\* The system was stopped and started again; of the two messages of the
\* run one was dropped and the other, arrived after the start, has been
\* taken in: its price is the only one of the history.
C33_Witness ==
    /\ budget = [ThreadRun EXCEPT !.ticks = 0, !.stops = 0]
    /\ is_running
    /\ HistoryOf(strategy, "005930") = << 96 >>
    /\ HistoryOf(strategy, "000660") = << >>
    /\ engine[1].pc = "evaluate"
    /\ engine[2].pc = "unborn"


(***************************************************************************)
(* Approvals of crossover buys: the strategy was set to WarmStrategy, the  *)
(* system started and the thread booted; BuyTicks rows of one symbol       *)
(* arrive, so that a crossover is built on the last row only; approvals    *)
(* and manual orders follow or come between.                               *)
(***************************************************************************)
BuyTicks  == 3
BuyOrders == 2

BuyRun == [ticks |-> BuyTicks, orders |-> BuyOrders, reloads |-> 0,
           stops |-> 0, clock |-> 0]

InitBuy ==
    /\ risk_manager = [ account_balance |-> AccountBalance,
                        cfg             |-> DefaultRisk,
                        daily_trades    |-> 0,
                        daily_pnl       |-> 0,
                        positions       |-> << >>,
                        position_order  |-> << >>,
                        last_prices     |-> << >> ]
    /\ strategy = [ price_history      |-> << >>,
                    short_ma_period    |-> WarmStrategy[1],
                    long_ma_period     |-> WarmStrategy[2],
                    min_history_length |-> WarmStrategy[2] ]
    /\ signals = << >>
    /\ pending_signals = {}
    /\ is_running = TRUE
    /\ engine_running = TRUE
    /\ clock = 0
    /\ engine = [e \in EngineIds |-> [IdleEngine EXCEPT !.pc = "idle"]]
    /\ handler = Respond("started")
    /\ liq = [k \in StopIds |-> IdleLiq]
    /\ trade_history = << >>
    /\ order_calls = [approve |-> [i \in SignalIds |-> 0], manual |-> 0,
                      liquidate |-> 0]
    /\ broadcasts = [pending |-> {}, resolved |-> [i \in SignalIds |-> << >>]]
    /\ resolutions = [i \in SignalIds |-> << >>]
    /\ budget = BuyRun

NextBuy ==
    \/ \E e \in EngineIds, c \in HistorySymbols, p \in Prices :
          TickIngest(e, c, p)
    \/ \E e \in EngineIds : TickEvaluate(e)
    \/ \E e \in EngineIds : TickCreate(e)
    \/ \E e \in EngineIds : TickBroadcast(e)
    \/ \E id \in SignalIds : ApproveCheck(id)
    \/ \E ok \in BOOLEAN : ApproveOrderReturns(ok)
    \/ ApproveResolve
    \/ \E c \in HistorySymbols, t \in {"buy", "sell"}, q \in OrderQuantities,
          p \in OrderPrices : ManualOrder(c, t, q, p)
    \/ \E ok \in BOOLEAN : ManualOrderReturns(ok)

SpecBuy == InitBuy /\ [][NextBuy]_vars

\* No row has been taken in since the row that signal i was built on.
NoLaterTick(i) == \E e \in DOMAIN engine : engine[e].sig = i

\* C34 as stated: a buy signal approved before any later tick of its
\* symbol never reaches the order executor and is never resolved as
\* approved.
C34_BuyNeverApproved ==
    \A i \in DOMAIN signals :
       (signals[i].signal = "buy" /\ NoLaterTick(i))
          => /\ signals[i].status # "approved"
             /\ order_calls.approve[i] = 0

\* approve_signal goes on to safe_execute_order for the signal id.
Proceeds(id) ==
    /\ ApproveCheck(id)
    /\ id \in pending_signals
    /\ ~Resolved(signals[id])
    /\ ~Expired(signals[id], clock)

\* The last price seen of the signal's symbol is within
\* min_price_change_ratio (0.01) of the signal's price.
NearLastPrice(sig) ==
    /\ sig.stock_code \in DOMAIN risk_manager.last_prices
    /\ LET last == risk_manager.last_prices[sig.stock_code]
       IN  Abs(sig.price - last) * 100 < last

\* C34, amended: an approval of a buy signal that finds the last price of
\* the symbol within min_price_change_ratio of the signal's price is
\* refused by can_trade before order_cash, opens no position and leaves
\* daily_trades unchanged, and the signal, if still in the table, is
\* resolved as failed.
C34_BuyRefusedNearLastPrice ==
    [][ /\ \A id \in SignalIds :
             (Proceeds(id)
                /\ signals[id].signal = "buy"
                /\ NearLastPrice(signals[id]))
               => /\ handler'.pc = "finish"
                  /\ ~handler'.result
                  /\ handler'.reason # "OK"
                  /\ order_calls' = order_calls
                  /\ risk_manager' = risk_manager
        /\ (ApproveResolve /\ handler.signal = "buy" /\ ~handler.result)
               => /\ risk_manager' = risk_manager
                  /\ trade_history' = trade_history
                  /\ handler.signal_id \in pending_signals
                        => signals'[handler.signal_id].status = "failed"
      ]_vars

\* A crossover buy of 005930 at 106, approved while 106 is still the last
\* price, has been refused by rule 6 and resolved as failed; nothing is
\* held and no trade is counted.
C34_Witness ==
    /\ Len(signals) = 1
    /\ signals[1].signal = "buy"
    /\ signals[1].status = "failed"
    /\ handler.response = "failed"
    /\ handler.reason = "price_change"
    /\ "005930" \in DOMAIN risk_manager.last_prices
    /\ risk_manager.last_prices["005930"] = signals[1].price
    /\ risk_manager.positions = << >>
    /\ risk_manager.daily_trades = 0
    /\ order_calls.approve[1] = 0


(***************************************************************************)
(* C35  calculate_quantity against the amount rules of can_trade           *)
(***************************************************************************)
\* C35 as stated: for every price and configuration the quantity
\* calculate_quantity returns passes rules 3 and 4 of can_trade at the
\* same price, also when it was clamped up to 1.
C35_QuantityPassesAmountRules ==
    handler.kind = "quantity" =>
       /\ ~AmountExceeded(risk_manager, handler.price, handler.quantity)
       /\ ~PositionSizeExceeded(risk_manager, handler.price,
                                handler.quantity)

\* C35, amended: the quantity calculate_quantity returns passes rules 3
\* and 4 of can_trade at the same price exactly when the price of one
\* share is within min(max_single_trade_amount, account_balance *
\* max_position_size_ratio); above it the quantity is the clamped 1 and
\* rule 3 or rule 4 refuses it.
C35_QuantityPassesUnlessClamped ==
    handler.kind = "quantity" =>
       LET rm == risk_manager
           p  == handler.price
           q  == handler.quantity
           within == /\ p <= rm.cfg.max_single_trade_amount
                     /\ p * RatioDen
                          <= rm.account_balance
                                * rm.cfg.max_position_size_ratio
       IN  IF within
           THEN /\ ~AmountExceeded(rm, p, q)
                /\ ~PositionSizeExceeded(rm, p, q)
           ELSE /\ q = 1
                /\ AmountExceeded(rm, p, q) \/ PositionSizeExceeded(rm, p, q)

\* Balance 999 at ratio 0.1: a share at 100 is above the cap of 99.9, the
\* quantity is clamped to 1 and rule 4 refuses it.
C35_Witness ==
    /\ handler.kind = "quantity"
    /\ risk_manager.account_balance = 999
    /\ risk_manager.cfg.max_position_size_ratio = 100
    /\ handler.price = 100
    /\ handler.quantity = 1
    /\ PositionSizeExceeded(risk_manager, handler.price, handler.quantity)
    /\ CanTrade(risk_manager, "005930", handler.price, handler.quantity)
          = "position_size"


(***************************************************************************)
(* C36  What the ingestion thread writes                                   *)
(***************************************************************************)
\* A step of the ingestion thread: a dropped message or one of the four
\* steps of a row.
TickStep ==
    \E e \in EngineIds :
       \/ BatchDropped(e)
       \/ \E c \in Symbols, p \in Prices \cup BadPrices : TickIngest(e, c, p)
       \/ TickEvaluate(e)
       \/ TickCreate(e)
       \/ TickBroadcast(e)

\* C36: a step of the ingestion thread leaves positions, daily_trades and
\* daily_pnl (and every field of the ledger but last_prices, every field
\* of the strategy but price_history, the trade history and the executor
\* calls) unchanged; and a step that inserts or removes a position is the
\* return of a successful order_cash call made by approve_signal,
\* execute_manual_order or stop_system's liquidation.
C36_TicksLeaveLedger ==
    [][ /\ TickStep =>
             /\ risk_manager'.positions = risk_manager.positions
             /\ risk_manager'.daily_trades = risk_manager.daily_trades
             /\ risk_manager'.daily_pnl = risk_manager.daily_pnl
             /\ risk_manager' = [risk_manager EXCEPT
                                   !.last_prices = risk_manager'.last_prices]
             /\ strategy' = [strategy EXCEPT
                               !.price_history = strategy'.price_history]
             /\ trade_history' = trade_history
             /\ order_calls' = order_calls
        /\ risk_manager'.positions # risk_manager.positions =>
             \/ /\ ApproveOrderReturns(TRUE)
                /\ order_calls.approve[handler.signal_id] > 0
             \/ /\ ManualOrderReturns(TRUE)
                /\ order_calls.manual > 0
             \/ \E k \in StopIds : /\ LiqOrderReturns(k, TRUE)
                                   /\ order_calls.liquidate > 0
      ]_vars

\* A row of a held symbol has been taken in at a price other than the one
\* it was bought at: the last price follows the row, the position and the
\* trade count are those of the fill.
C36_Witness ==
    \E e \in EngineIds :
       LET c == engine[e].stock_code
       IN  /\ engine[e].pc = "evaluate"
           /\ c \in DOMAIN risk_manager.positions
           /\ risk_manager.last_prices[c] = engine[e].price
           /\ risk_manager.positions[c].buy_price # engine[e].price
           /\ risk_manager.daily_trades = 1
           /\ risk_manager.daily_pnl = 0


(***************************************************************************)
(* Exits: 005930 is held (100 shares bought at 100) by a ledger whose      *)
(* trade count, daily pnl, loss limit and amount limit are drawn so that   *)
(* can_trade refuses every buy in some of them; the system runs; rows      *)
(* arrive (96 is a stop-loss, 106 a take-profit), signals are approved,    *)
(* manual orders are posted and the system is stopped with liquidation.    *)
(***************************************************************************)
ExitTicks  == 2
ExitOrders == 1
ExitCounts       == {1, 5}
ExitPnls         == {0, -400}
ExitLossLimits   == {400, 500000}
ExitAmountLimits == {5000, 1000000}

ExitRun == [ticks |-> ExitTicks, orders |-> ExitOrders, reloads |-> 0,
            stops |-> MaxStops, clock |-> 0]

InitExit ==
    /\ \E trades \in ExitCounts, pnl \in ExitPnls, limit \in ExitLossLimits,
          amount \in ExitAmountLimits :
          risk_manager =
             [CanTradeLedger(trades, pnl, limit, TRUE, TRUE)
                EXCEPT !.cfg.max_single_trade_amount = amount]
    /\ strategy = [ price_history      |-> << >>,
                    short_ma_period    |-> InitShortPeriod,
                    long_ma_period     |-> InitLongPeriod,
                    min_history_length |-> InitLongPeriod ]
    /\ signals = << >>
    /\ pending_signals = {}
    /\ is_running = TRUE
    /\ engine_running = TRUE
    /\ clock = 0
    /\ engine = [e \in EngineIds |-> [IdleEngine EXCEPT !.pc = "idle"]]
    /\ handler = Respond("started")
    /\ liq = [k \in StopIds |-> IdleLiq]
    /\ trade_history = AddTrade(<< >>, "005930", "buy", 1, 100)
    /\ order_calls = [approve |-> [i \in SignalIds |-> 0], manual |-> 1,
                      liquidate |-> 0]
    /\ broadcasts = [pending |-> {}, resolved |-> [i \in SignalIds |-> << >>]]
    /\ resolutions = [i \in SignalIds |-> << >>]
    /\ budget = ExitRun

NextExit ==
    \/ \E e \in EngineIds, c \in HistorySymbols, p \in Prices :
          TickIngest(e, c, p)
    \/ \E e \in EngineIds : BatchDropped(e)
    \/ \E e \in EngineIds : TickEvaluate(e)
    \/ \E e \in EngineIds : TickCreate(e)
    \/ \E e \in EngineIds : TickBroadcast(e)
    \/ \E id \in SignalIds : ApproveCheck(id)
    \/ \E ok \in BOOLEAN : ApproveOrderReturns(ok)
    \/ ApproveResolve
    \/ \E c \in HistorySymbols, t \in {"buy", "sell"}, q \in OrderQuantities,
          p \in OrderPrices : ManualOrder(c, t, q, p)
    \/ \E ok \in BOOLEAN : ManualOrderReturns(ok)
    \/ StopSystem(TRUE)
    \/ \E k \in StopIds : LiqResume(k)
    \/ \E k \in StopIds, ok \in BOOLEAN : LiqOrderReturns(k, ok)

SpecExit == InitExit /\ [][NextExit]_vars

(***************************************************************************)
(* C37  A sell is not gated by can_trade                                   *)
(***************************************************************************)
\* C37: the sell of a held symbol reaches order_cash with the held
\* quantity whatever daily_trades, daily_pnl and the limits are: the
\* approval of a pending, unexpired sell signal, a manual sell, and the
\* sell of a position stop_system liquidates; and a stop-loss sell that is
\* approved after the trade count or the loss limit was reached and whose
\* order is filled closes the position.
C37_SellNotGated ==
    [][ /\ \A id \in SignalIds :
             ( /\ ApproveCheck(id)
               /\ id \in pending_signals
               /\ signals[id].status = "pending"
               /\ ~(signals[id].expires_at < clock)
               /\ signals[id].signal = "sell"
               /\ Held(signals[id].stock_code) )
             => /\ handler'.pc = "exec_order"
                /\ handler'.quantity
                      = risk_manager.positions[signals[id].stock_code].quantity
                /\ order_calls'.approve[id] = order_calls.approve[id] + 1
        /\ \A c \in Symbols, q \in OrderQuantities, p \in OrderPrices :
             (ManualOrder(c, "sell", q, p) /\ Held(c))
             => /\ handler'.pc = "exec_order"
                /\ handler'.quantity = risk_manager.positions[c].quantity
                /\ order_calls'.manual = order_calls.manual + 1
        /\ \A k \in StopIds :
             ( /\ LiqResume(k)
               /\ liq[k].todo # << >>
               /\ Held(Head(liq[k].todo).stock_code) )
             => /\ liq'[k].pc = "exec_order"
                /\ liq'[k].quantity
                      = risk_manager.positions[Head(liq[k].todo).stock_code]
                           .quantity
                /\ order_calls'.liquidate = order_calls.liquidate + 1
        /\ ( /\ ApproveOrderReturns(TRUE)
             /\ handler.signal = "sell" )
             => handler.stock_code \notin DOMAIN risk_manager'.positions
      ]_vars

\* A stop-loss sell was approved and filled by a ledger that had reached
\* both the trade count and the loss limit.
C37_Witness ==
    \E id \in DOMAIN signals :
       /\ signals[id].signal = "sell"
       /\ signals[id].reason = "stop"
       /\ signals[id].status = "approved"
       /\ order_calls.approve[id] = 1
       /\ TradeCountExceeded(risk_manager)
       /\ DailyLossExceeded(risk_manager)
       /\ risk_manager.positions = << >>


(***************************************************************************)
(* Approvals across a reload of the risk limits: the strategy was set to   *)
(* WarmStrategy, the system started and the thread booted; RecordTicks     *)
(* rows of one symbol arrive, so that a crossover buy is built on the last *)
(* row; update_risk_config is called RecordReloads times with a lower      *)
(* max_single_trade_amount; approvals and RecordOrders manual orders       *)
(* follow or come between.                                                 *)
(***************************************************************************)
RecordTicks   == 3
RecordReloads == 1
RecordOrders  == 2

RecordConfigs == {[DefaultRisk EXCEPT !.max_single_trade_amount = 5000]}

RecordRun == [ticks |-> RecordTicks, orders |-> RecordOrders,
              reloads |-> RecordReloads, stops |-> 0, clock |-> 0]

InitRecord ==
    /\ risk_manager = [ account_balance |-> AccountBalance,
                        cfg             |-> DefaultRisk,
                        daily_trades    |-> 0,
                        daily_pnl       |-> 0,
                        positions       |-> << >>,
                        position_order  |-> << >>,
                        last_prices     |-> << >> ]
    /\ strategy = [ price_history      |-> << >>,
                    short_ma_period    |-> WarmStrategy[1],
                    long_ma_period     |-> WarmStrategy[2],
                    min_history_length |-> WarmStrategy[2] ]
    /\ signals = << >>
    /\ pending_signals = {}
    /\ is_running = TRUE
    /\ engine_running = TRUE
    /\ clock = 0
    /\ engine = [e \in EngineIds |-> [IdleEngine EXCEPT !.pc = "idle"]]
    /\ handler = Respond("started")
    /\ liq = [k \in StopIds |-> IdleLiq]
    /\ trade_history = << >>
    /\ order_calls = [approve |-> [i \in SignalIds |-> 0], manual |-> 0,
                      liquidate |-> 0]
    /\ broadcasts = [pending |-> {}, resolved |-> [i \in SignalIds |-> << >>]]
    /\ resolutions = [i \in SignalIds |-> << >>]
    /\ budget = RecordRun

NextRecord ==
    \/ \E e \in EngineIds, c \in HistorySymbols, p \in Prices :
          TickIngest(e, c, p)
    \/ \E e \in EngineIds : TickEvaluate(e)
    \/ \E e \in EngineIds : TickCreate(e)
    \/ \E e \in EngineIds : TickBroadcast(e)
    \/ \E id \in SignalIds : ApproveCheck(id)
    \/ \E ok \in BOOLEAN : ApproveOrderReturns(ok)
    \/ ApproveResolve
    \/ \E c \in HistorySymbols, t \in {"buy", "sell"}, q \in OrderQuantities,
          p \in OrderPrices : ManualOrder(c, t, q, p)
    \/ \E ok \in BOOLEAN : ManualOrderReturns(ok)
    \/ \E cfg \in RecordConfigs : UpdateRiskConfig(cfg)

SpecRecord == InitRecord /\ [][NextRecord]_vars

(***************************************************************************)
(* C38  The quantity of an approval's trade record                         *)
(***************************************************************************)
\* C38 as stated: the trade record approve_signal appends after a
\* successful order carries the quantity update_position was called with:
\* the quantity of the position opened by a buy, of the position closed by
\* a sell.
C38_RecordQuantity ==
    [][ (ApproveResolve /\ handler.result) =>
           /\ Len(trade_history') = Len(trade_history) + 1
           /\ trade_history'[Len(trade_history')].quantity = handler.quantity
           /\ ( /\ handler.signal = "buy"
                /\ handler.stock_code \in DOMAIN risk_manager.positions )
              => trade_history'[Len(trade_history')].quantity
                    = risk_manager.positions[handler.stock_code].quantity
      ]_vars


(***************************************************************************)
(* C39  signal_resolved broadcasts                                         *)
(***************************************************************************)
\* C39 as stated: a signal_resolved broadcast for an id is the only one
\* for that id, announces approved, failed or rejected, and is emitted
\* only for an id that is in the table when its handler resolves it (not
\* replaced by a newer signal, swept by a create or cleared by
\* stop_system) and that approve_signal has not refused as expired.
C39_ResolvedBroadcastOnce ==
    [][ \A i \in ResolvedEmitted :
          /\ broadcasts'.resolved[i] = Append(broadcasts.resolved[i],
                                              broadcasts'.resolved[i][1])
          /\ broadcasts.resolved[i] = << >>
          /\ broadcasts'.resolved[i][1] \in {"approved", "failed", "rejected"}
          /\ i \in pending_signals
          /\ \A n \in DOMAIN resolutions[i] : resolutions[i][n] # "expired"
      ]_vars


(***************************************************************************)
(* C40  account_balance                                                    *)
(***************************************************************************)
\* C40: no step changes account_balance, which stays the balance the ledger
\* was constructed with; so the amount calculate_quantity divides and the
\* cap of rule 4 are those of a ledger without positions and without pnl,
\* and a buy that is placed is placed for the quantity such a ledger gives.
C40_BalanceConstant ==
    [][ /\ risk_manager'.account_balance = risk_manager.account_balance
        /\ risk_manager.account_balance = AccountBalance
        /\ MaxTradeAmountScaled(risk_manager)
              = Min(risk_manager.cfg.max_single_trade_amount * RatioDen,
                    AccountBalance * risk_manager.cfg.max_position_size_ratio)
        /\ ( /\ handler'.pc = "exec_order"
             /\ handler.pc = "free"
             /\ handler'.signal = "buy" )
           => handler'.quantity
                 = Max(1, TruncDiv(
                      Min(risk_manager.cfg.max_single_trade_amount * RatioDen,
                          AccountBalance
                             * risk_manager.cfg.max_position_size_ratio),
                      handler'.price * RatioDen))
      ]_vars

\* A loss has been realised and a buy is placed for the quantity of the
\* untouched balance.
C40_Witness ==
    /\ risk_manager.daily_pnl < 0
    /\ Len(trade_history) >= 2
    /\ handler.pc = "exec_order"
    /\ handler.signal = "buy"
    /\ handler.quantity * handler.price * RatioDen
          > (AccountBalance + risk_manager.daily_pnl)
               * risk_manager.cfg.max_position_size_ratio
    /\ risk_manager.account_balance = AccountBalance


=============================================================================
